---- MODULE Spec2Model ----
(***************************************************************************)
(* Model of the Parquet scan operator of datafusion                        *)
(* (datafusion/src/physical_plan/parquet.rs): the planner that splits the  *)
(* discovered files into partitions, builds the pruning predicate and      *)
(* resolves the projection (ParquetExec::try_new, ParquetExec::new), the   *)
(* per-partition execution (ParquetExec::execute, read_files, send_result, *)
(* ParquetStream) in which a blocking worker pushes record batches through *)
(* a bounded tokio channel to the consumer of the returned stream, and the *)
(* pruning of row groups by their statistics (RowGroupPruningStatistics,   *)
(* build_row_group_predicate); and of the flight service of the ballista   *)
(* executor (ballista/rust/executor/src/flight_service.rs).                *)
(***************************************************************************)
EXTENDS Integers, Sequences, FiniteSets, TLC

(***************************************************************************)
(* Bounds of the model.                                                    *)
(***************************************************************************)
\* files of a scan that is executed
MaxFiles == 2
\* max_concurrency of a scan that is executed
MaxConc == 2
\* rows stored in one file
MaxRows == 2
\* batch_size of a scan
MaxBatchSize == 2
\* limit = Some(0) .. Some(MaxLimit), or None
MaxLimit == 2
\* polls of a stream after it yielded end-of-stream that are recorded
MaxEosPolls == 2
\* files and max_concurrency of a scan that is only planned
MaxPlanFiles == 6
MaxPlanConc == 8

VARIABLES
    all_files,        \* the discovered files, in discovery order
    max_concurrency,  \* try_new's max_concurrency
    batch_size,       \* ParquetExec.batch_size
    limit,            \* ParquetExec.limit: None or a number
    scan,             \* "new" (before try_new), "built", "panicked"
    panic,            \* where the calling task panicked, if it did
    partitions,       \* ParquetExec.partitions: sequence of file lists
    worker,           \* per partition: the read_files task
    chan,             \* per partition: items buffered in the channel
    rx,               \* per partition: "none", "open", "dropped"
    received,         \* per partition: what next() returned, in order
    produced,         \* per partition: what batch_reader.next() gave, in order
    hist,             \* per partition: history counters
    schema,           \* desc.schema(): the fields of the files
    projection,       \* try_new's projection: none or a list of indices
    predicate,        \* try_new's predicate: none or an expression
    statistics,       \* the statistics get_statistics_with_limit gave
    exec,             \* ParquetExec: projection, schema, statistics,
                      \* predicate_builder
    metrics,          \* the counters of ParquetExecMetrics and of the
                      \* ParquetPartitionMetrics handed to the worker
    row_group_metadata,   \* file_reader.metadata().row_groups() of a file
    row_group_predicate,  \* what build_row_group_predicate returned last
    evaluations,      \* calls of build_row_group_predicate so far
    request,          \* do_get: the ticket and the partition file it names
    call,             \* do_get: "none" (not called), "ok", "err"
    task,             \* do_get: the task running stream_flight_data
    fchan,            \* do_get: frames buffered in the channel
    frx,              \* do_get: "none", "open", "dropped"
    freceived,        \* do_get: what the remote consumer received, in order
    rpc,              \* the other flight methods: what each call returned
    put,              \* do_put: the inbound stream and how far it was read
    config,           \* the RuntimeConfig being built
    listing,          \* list_all: the directory tree and what the call returned
    object,           \* the file behind a LocalFSObjectReader and its cursor
    segments,         \* the FileSegmentReaders made from it, in creation order
    runs              \* the executions of the partition of a scan with a
                      \* predicate: per execution the read_files task, its
                      \* channel and its consumer

vars == <<all_files, max_concurrency, batch_size, limit, scan, panic,
          partitions, worker, chan, rx, received, produced, hist,
          schema, projection, predicate, statistics, exec, metrics,
          row_group_metadata, row_group_predicate, evaluations,
          request, call, task, fchan, frx, freceived, rpc, put,
          config, listing, object, segments, runs>>

inputs == <<all_files, max_concurrency, batch_size, limit,
            schema, projection, predicate, statistics, row_group_metadata>>

\* the state of the other services, which neither the scan operator nor
\* do_get touches
rpcs == <<rpc, put>>

\* the state of the local file system object store
local == <<listing, object, segments>>

elsewhere == <<rpcs, config, local, runs>>

\* the state of the flight service, which the scan operator never touches
flight == <<request, call, task, fchan, frx, freceived>>

\* what only try_new and build_row_group_predicate change
built == <<exec, metrics, row_group_predicate, evaluations>>

None == -1

Min(a, b) == IF a < b THEN a ELSE b

Max(a, b) == IF a < b THEN b ELSE a

(***************************************************************************)
(* Files.  A file is known to the model by its place in discovery order    *)
(* (id), by whether object_store.get_reader / SerializedFileReader::new /  *)
(* get_record_reader_by_columns succeed on it (open), by its number of     *)
(* rows, and by whether its batch reader ends with Some(Err) instead of    *)
(* None (fail).                                                            *)
(***************************************************************************)
FileKinds(maxRows) ==
    [open : {TRUE}, rows : 0..maxRows, fail : BOOLEAN]
        \cup [open : {FALSE}, rows : {0}, fail : {FALSE}]

WithIds(kinds) ==
    [i \in 1..Len(kinds) |->
        [id |-> i, open |-> kinds[i].open, rows |-> kinds[i].rows,
         fail |-> kinds[i].fail]]

SeqsUpTo(S, n) == UNION {[1..m -> S] : m \in 0..n}

\* Number of Ok batches the record reader of a file with `rows` rows yields
NumBatches(rows, bs) == (rows + bs - 1) \div bs

\* Rows of the k-th batch (k counted from 0)
BatchRows(rows, bs, k) == Min(bs, rows - k * bs)

NoItem == [kind |-> "none", file |-> 0, idx |-> 0, rows |-> 0]

OkItem(file, k, bs) ==
    [kind |-> "ok", file |-> file.id, idx |-> k,
     rows |-> BatchRows(file.rows, bs, k)]

ErrItem(file, k) == [kind |-> "err", file |-> file.id, idx |-> k, rows |-> 0]

Eos == [kind |-> "eos", file |-> 0, idx |-> 0, rows |-> 0]

(***************************************************************************)
(* The planner: ParquetExec::try_new, lines 162-170 (the same computation  *)
(* as split_files).                                                        *)
(***************************************************************************)
\* chunk_size without the round-up of lines 164-166
ChunkSizeFloor(n, N) == n \div N

ChunkSize(n, N) == IF n % N > 0 THEN n \div N + 1 ELSE n \div N

\* slice::chunks_exact(c): the short remainder is left out
ChunksExact(s, c) ==
    [k \in 1..(Len(s) \div c) |-> SubSeq(s, (k - 1) * c + 1, k * c)]

\* slice::chunks(c) for c > 0
Chunks(s, c) ==
    [k \in 1..((Len(s) + c - 1) \div c) |->
        SubSeq(s, (k - 1) * c + 1, Min(k * c, Len(s)))]

IdleWorker ==
    [pc |-> "idle", f |-> 1, k |-> 0, total_rows |-> 0, hand |-> NoItem,
     result |-> "none"]

NoHist == [sends_after_drop |-> 0, decodes_after_drop |-> 0, eos |-> 0]

(***************************************************************************)
(* ParquetExec::new, lines 213-238: the resolved projection, the projected *)
(* schema and the projected statistics.  An Option is a record with the    *)
(* flag `some`; indices into the schema count from 0 as in the source.     *)
(***************************************************************************)
NoneOf == [some |-> FALSE, v |-> <<>>]

SomeOf(x) == [some |-> TRUE, v |-> x]

\* a projection that stands for every column whatever the caller asked
ProjectionAll(p, sch) == [k \in 1..Len(sch) |-> k - 1]

\* lines 213-216
Projection(p, sch) == IF p.some THEN p.v ELSE [k \in 1..Len(sch) |-> k - 1]

\* lines 218-223
ProjectedSchema(p, sch) == [k \in 1..Len(p) |-> sch[p[k] + 1]]

\* lines 225-232: Some(Vec::with_capacity(..)), and each push of the loop
\* goes to the vector that the closure given to Option::map owns and drops
NewColumnStatistics(cs, p) == IF cs.some THEN SomeOf(<<>>) ELSE NoneOf

\* lines 234-238
NewStatistics(st, p) ==
    [num_rows |-> st.num_rows,
     total_byte_size |-> st.total_byte_size,
     column_statistics |-> NewColumnStatistics(st.column_statistics, p)]

(***************************************************************************)
(* try_new, lines 172-186: the pruning predicate is built from the user's  *)
(* predicate and the schema of the files.  Whether                         *)
(* PruningPredicate::try_new accepts an expression is a property of the    *)
(* expression (`buildable`).                                               *)
(***************************************************************************)
NoBuilder == [some |-> FALSE, expr |-> NoneOf, schema |-> <<>>]

PredicateBuilder(pred, sch) ==
    IF pred.some /\ pred.buildable
    THEN [some |-> TRUE, expr |-> pred.expr, schema |-> sch]
    ELSE NoBuilder

\* line 182
CreationErrors(pred) == IF pred.some /\ ~pred.buildable THEN 1 ELSE 0

NoMetrics ==
    [predicate_creation_errors |-> 0, predicate_evaluation_errors |-> 0,
     row_groups_pruned |-> 0]

NoExec ==
    [projection |-> <<>>, schema |-> <<>>,
     statistics |-> [num_rows |-> None, total_byte_size |-> None,
                     column_statistics |-> NoneOf],
     predicate_builder |-> NoBuilder]

\* ParquetExec::try_new: chunks(0) panics, which happens exactly for an
\* empty file list; otherwise the predicate is built and ParquetExec::new
\* resolves the projection
TryNew ==
    /\ scan = "new"
    /\ LET c == ChunkSize(Len(all_files), max_concurrency) IN
       IF c = 0
       THEN /\ scan' = "panicked"
            /\ panic' = [at |-> "try_new", index |-> 0]
            /\ UNCHANGED <<partitions, worker, chan, rx, received, produced,
                           hist, exec, metrics>>
       ELSE LET ps == Chunks(all_files, c)
                pr == Projection(projection, schema)
            IN
            /\ scan' = "built"
            /\ partitions' = ps
            /\ worker' = [p \in 1..Len(ps) |-> IdleWorker]
            /\ chan' = [p \in 1..Len(ps) |-> <<>>]
            /\ rx' = [p \in 1..Len(ps) |-> "none"]
            /\ received' = [p \in 1..Len(ps) |-> <<>>]
            /\ produced' = [p \in 1..Len(ps) |-> <<>>]
            /\ hist' = [p \in 1..Len(ps) |-> NoHist]
            /\ metrics' = [metrics EXCEPT !.predicate_creation_errors =
                                              @ + CreationErrors(predicate)]
            /\ exec' = [projection |-> pr,
                        schema |-> ProjectedSchema(pr, schema),
                        statistics |-> NewStatistics(statistics, pr),
                        predicate_builder |->
                            PredicateBuilder(predicate, schema)]
            /\ UNCHANGED panic
    /\ UNCHANGED <<inputs, flight, elsewhere, row_group_predicate, evaluations>>

\* ParquetExec::output_partitioning
OutputPartitioning == Len(partitions)

NoPanic == [at |-> "none", index |-> 0]

\* stream_flight_data was not spawned
NoTask ==
    [pc |-> "none", b |-> 0, q |-> <<>>, reads |-> 0, result |-> "none",
     reads_after_drop |-> 0]

\* a partition file of the executor: whether File::open and
\* read_file_metadata succeed on it, the number of dictionaries of each of
\* its batches, and whether its reader ends with a decode error
NoFile == [open |-> FALSE, meta |-> FALSE, dicts |-> <<>>, fail |-> FALSE]

NoRequest == [decodable |-> FALSE, file |-> NoFile]

\* the flight methods besides do_get and do_put
Unary ==
    {"get_schema", "get_flight_info", "handshake", "list_flights",
     "list_actions", "do_exchange"}

Methods == Unary \cup {"do_action"}

\* a method that was not called: whether its request decodes, and the
\* status it returned
NotCalled == [called |-> FALSE, decodable |-> TRUE, result |-> "none"]

\* do_put was not called
NoPut == [pc |-> "none", inbound |-> <<>>, read |-> 0, result |-> "none"]

\* RuntimeConfig::new was not called
NoConfig ==
    [status |-> "none", batch_size |-> 0, max_memory |-> 0, local_dirs |-> <<>>,
     calls |-> 0, last |-> "none", rejected |-> FALSE]

\* list_all was not called
NoListing ==
    [called |-> FALSE, ok |-> FALSE, names |-> <<>>,
     tree |-> [kind |-> "missing", ext |-> FALSE, readable |-> TRUE,
               entries |-> <<>>]]

\* no file was opened
NoObject == [opened |-> FALSE, len |-> 0, cursor |-> 0]

\* no row group predicate was built yet
NoKeep == [kind |-> "none", values |-> <<>>]

InitState ==
    /\ scan = "new"
    /\ panic = NoPanic
    /\ partitions = <<>>
    /\ worker = <<>>
    /\ chan = <<>>
    /\ rx = <<>>
    /\ received = <<>>
    /\ produced = <<>>
    /\ hist = <<>>
    /\ exec = NoExec
    /\ metrics = NoMetrics
    /\ row_group_predicate = NoKeep
    /\ evaluations = 0
    /\ call = "none"
    /\ task = NoTask
    /\ fchan = <<>>
    /\ frx = "none"
    /\ freceived = <<>>
    /\ rpc = [m \in Methods |-> NotCalled]
    /\ put = NoPut
    /\ config = NoConfig
    /\ listing = NoListing
    /\ object = NoObject
    /\ segments = <<>>
    /\ runs = <<>>

\* A scan of all columns without predicate and without statistics
NoPredicate == [some |-> FALSE, buildable |-> TRUE, expr |-> NoneOf]

NoStatistics ==
    [num_rows |-> None, total_byte_size |-> None, column_statistics |-> NoneOf]

PlainScan ==
    /\ schema = <<>>
    /\ projection = NoneOf
    /\ predicate = NoPredicate
    /\ statistics = NoStatistics
    /\ row_group_metadata = <<>>
    /\ request = NoRequest

\* Inputs of a scan that is planned only
InitPlan ==
    /\ \E n \in 0..MaxPlanFiles :
          all_files = WithIds([i \in 1..n |-> [open |-> TRUE, rows |-> 1, fail |-> FALSE]])
    /\ max_concurrency \in 1..MaxPlanConc
    /\ batch_size = 1
    /\ limit = None
    /\ PlainScan
    /\ InitState

NextPlan == TryNew

SpecPlan == InitPlan /\ [][NextPlan]_vars

(***************************************************************************)
(* Execution of a partition: ParquetExec::execute spawns read_files on the *)
(* blocking pool and returns the receiving half of a channel(2).           *)
(***************************************************************************)
ChannelCapacityThree == 2 + 1

\* channel(2), line 354
ChannelCapacity == 2

Parts == DOMAIN partitions

\* total_rows of the worker of partition p (a local of read_files, line 569)
TotalRowsShared(p) ==
    LET RECURSIVE Sum(_)
        Sum(q) == IF q = 0 THEN 0 ELSE worker[q].total_rows + Sum(q - 1)
    IN Sum(Len(worker))

TotalRows(p) == worker[p].total_rows

\* limit.map(|l| total_rows >= l).unwrap_or(false), line 591
LimitReachedStrict(l, total) == l # None /\ total > l

LimitReached(l, total) == l # None /\ total >= l

\* blocking_send fails iff the receiver was dropped (the channel is closed)
SendFailsNever(r) == FALSE

SendFails(r) == r = "dropped"

\* where the worker goes after a send that completed (lines 590-593, 605-610)
AfterSendKeepGoing(item, l, total) ==
    IF item.kind = "ok" /\ LimitReached(l, total) THEN "done" ELSE "next"

\* a worker that goes on after the send that reached the limit
AfterSendNoLimit(item, l, total) ==
    IF item.kind = "err" THEN "done" ELSE "next"

AfterSend(item, l, total) ==
    IF item.kind = "err" THEN "done"
    ELSE IF LimitReached(l, total) THEN "done" ELSE "next"

\* the item the receiver takes from the channel, and what stays buffered
RecvItemLast(ch) == ch[Len(ch)]

RecvItem(ch) == Head(ch)

RecvRest(ch) == Tail(ch)

\* ParquetExec::execute(i): self.partitions[i] panics for i out of range;
\* the panic unwinds the calling task, which the model follows no further.
Execute(i) ==
    /\ scan = "built"
    /\ IF i + 1 > Len(partitions)
       THEN /\ scan' = "panicked"
            /\ panic' = [at |-> "execute", index |-> i]
            /\ UNCHANGED <<worker, rx>>
       ELSE /\ rx[i + 1] = "none"
            /\ rx' = [rx EXCEPT ![i + 1] = "open"]
            /\ worker' = [worker EXCEPT ![i + 1].pc = "open"]
            /\ UNCHANGED <<scan, panic>>
    /\ UNCHANGED <<inputs, flight, elsewhere, built, partitions, chan, received, produced, hist>>

\* read_files, lines 571-585: the next iteration of the loop over the files
WorkerOpen(p) ==
    /\ scan = "built"
    /\ worker[p].pc = "open"
    /\ LET w == worker[p]
           files == partitions[p]
       IN worker' = [worker EXCEPT ![p] =
            IF w.f > Len(files)
            THEN [w EXCEPT !.pc = "done", !.result = "ok"]
            ELSE IF ~files[w.f].open
                 THEN [w EXCEPT !.pc = "done", !.result = "err_open"]
                 ELSE [w EXCEPT !.pc = "next", !.k = 0]]
    /\ UNCHANGED <<inputs, flight, elsewhere, built, scan, panic, partitions, chan, rx, received,
                   produced, hist>>

\* read_files, lines 587-589 and 595-603: batch_reader.next()
WorkerNext(p) ==
    /\ scan = "built"
    /\ worker[p].pc = "next"
    /\ LET w == worker[p]
           file == partitions[p][w.f]
           dropped == IF rx[p] = "dropped" THEN 1 ELSE 0
       IN IF w.k < NumBatches(file.rows, batch_size)
          THEN LET b == OkItem(file, w.k, batch_size) IN
               /\ worker' = [worker EXCEPT ![p] =
                     [w EXCEPT !.pc = "send", !.hand = b,
                               !.total_rows = w.total_rows + b.rows]]
               /\ produced' = [produced EXCEPT ![p] = Append(@, b)]
               /\ hist' = [hist EXCEPT ![p].decodes_after_drop = @ + dropped]
          ELSE IF file.fail
          THEN /\ worker' = [worker EXCEPT ![p] =
                     [w EXCEPT !.pc = "send", !.hand = ErrItem(file, w.k)]]
               /\ produced' = [produced EXCEPT ![p] = Append(@, ErrItem(file, w.k))]
               /\ hist' = [hist EXCEPT ![p].decodes_after_drop = @ + dropped]
          ELSE /\ worker' = [worker EXCEPT ![p] =
                     [w EXCEPT !.pc = "open", !.f = w.f + 1, !.k = 0]]
               /\ UNCHANGED <<produced, hist>>
    /\ UNCHANGED <<inputs, flight, elsewhere, built, scan, panic, partitions, chan, rx, received>>

\* send_result, lines 434-443, and what read_files does with its outcome:
\* blocking_send waits while the channel is full and the receiver alive
WorkerSend(p) ==
    /\ scan = "built"
    /\ worker[p].pc = "send"
    /\ LET w == worker[p] IN
       IF SendFails(rx[p])
       THEN /\ worker' = [worker EXCEPT ![p] =
                 [w EXCEPT !.pc = "done", !.result = "err_send", !.hand = NoItem]]
            /\ UNCHANGED <<chan, hist>>
       ELSE /\ Len(chan[p]) < ChannelCapacity
            /\ chan' = [chan EXCEPT ![p] = Append(@, w.hand)]
            /\ hist' = [hist EXCEPT ![p].sends_after_drop =
                           @ + (IF rx[p] = "dropped" THEN 1 ELSE 0)]
            /\ worker' = [worker EXCEPT ![p] =
                 LET pc == AfterSend(w.hand, limit, TotalRows(p)) IN
                 [w EXCEPT !.pc = pc, !.hand = NoItem, !.k = w.k + 1,
                           !.result = IF pc = "done"
                                      THEN (IF w.hand.kind = "err"
                                            THEN "err_decode" ELSE "ok")
                                      ELSE "none"]]
    /\ UNCHANGED <<inputs, flight, elsewhere, built, scan, panic, partitions, rx, received, produced>>

\* ParquetStream::poll_next, lines 637-642, when it returns Ready: an item of
\* the channel, or None once the channel is empty and the sender is gone
ConsumerNext(p) ==
    /\ scan = "built"
    /\ rx[p] = "open"
    /\ IF chan[p] # <<>>
       THEN /\ received' = [received EXCEPT ![p] = Append(@, RecvItem(chan[p]))]
            /\ chan' = [chan EXCEPT ![p] = RecvRest(@)]
            /\ UNCHANGED hist
       ELSE /\ worker[p].pc = "done"
            /\ hist[p].eos < MaxEosPolls
            /\ received' = [received EXCEPT ![p] = Append(@, Eos)]
            /\ hist' = [hist EXCEPT ![p].eos = @ + 1]
            /\ UNCHANGED chan
    /\ UNCHANGED <<inputs, flight, elsewhere, built, scan, panic, partitions, worker, rx, produced>>

\* The consumer drops the stream: the channel is closed and what it still
\* buffers is discarded
ConsumerDrop(p) ==
    /\ scan = "built"
    /\ rx[p] = "open"
    /\ rx' = [rx EXCEPT ![p] = "dropped"]
    /\ chan' = [chan EXCEPT ![p] = <<>>]
    /\ UNCHANGED <<inputs, flight, elsewhere, built, scan, panic, partitions, worker, received,
                   produced, hist>>

Limits == {None} \cup 0..MaxLimit

Init ==
    /\ all_files \in {WithIds(ks) : ks \in SeqsUpTo(FileKinds(MaxRows), MaxFiles)}
    /\ max_concurrency \in 1..MaxConc
    /\ batch_size \in 1..MaxBatchSize
    /\ limit \in Limits
    /\ PlainScan
    /\ InitState

Next ==
    \/ TryNew
    \/ \E i \in 0..MaxConc : Execute(i)
    \/ \E p \in Parts : WorkerOpen(p)
    \/ \E p \in Parts : WorkerNext(p)
    \/ \E p \in Parts : WorkerSend(p)
    \/ \E p \in Parts : ConsumerNext(p)
    \/ \E p \in Parts : ConsumerDrop(p)

Spec == Init /\ [][Next]_vars

\* A scan planned with max_concurrency = 1: all files in one partition
InitPartition == Init /\ max_concurrency = 1

SpecPartition == InitPartition /\ [][Next]_vars

(***************************************************************************)
(* Row group pruning: RowGroupPruningStatistics (get_statistic!,           *)
(* get_min_max_values!, lines 453-527) and build_row_group_predicate       *)
(* (lines 529-557).                                                        *)
(*                                                                         *)
(* A row group is the sequence of the statistics of its column chunks, in  *)
(* schema order.  The statistics of a column chunk are absent (present =   *)
(* FALSE) or a ParquetStatistics of a physical type (ptype), with or       *)
(* without min and max (set = has_min_max_set).  Booleans are 0 and 1.     *)
(***************************************************************************)
\* rows of statistics a file can hold
MaxRowGroups == 2
\* min, max and literals are in 0..MaxStat
MaxStat == 2
\* files whose row groups one worker evaluates the predicate on
MaxEvaluations == 1

NoStat == [present |-> FALSE, set |-> FALSE, ptype |-> "Int32", min |-> 0, max |-> 0]

Stat(pt, set, lo, hi) ==
    [present |-> TRUE, set |-> set, ptype |-> pt, min |-> lo, max |-> hi]

Scalar(dt, x) == [t |-> dt, null |-> FALSE, v |-> x]

NullScalar(dt) == [t |-> dt, null |-> TRUE, v |-> 0]

\* line 489: the data types that have a ScalarValue
HasScalar(dt) == dt \in {"Int32", "Boolean", "Timestamp"}

\* get_statistic! without the test of has_min_max_set
GetStatisticUnchecked(st, which) ==
    CASE st.ptype = "Boolean" -> <<Scalar("Boolean", st[which])>>
      [] st.ptype = "Int32" -> <<Scalar("Int32", st[which])>>
      [] st.ptype = "Int96" -> <<>>
      [] st.ptype = "FixedLenByteArray" -> <<>>

\* get_statistic!, lines 453-476: an Option as a sequence of length 0 or 1
GetStatistic(st, which) ==
    IF ~st.set THEN <<>>
    ELSE CASE st.ptype = "Boolean" -> <<Scalar("Boolean", st[which])>>
           [] st.ptype = "Int32" -> <<Scalar("Int32", st[which])>>
           [] st.ptype = "Int96" -> <<>>
           [] st.ptype = "FixedLenByteArray" -> <<>>

\* Schema::column_with_name: the index from 1, or 0
ColumnWithName(sch, name) ==
    IF \E k \in 1..Len(sch) : sch[k].name = name
    THEN CHOOSE k \in 1..Len(sch) :
            /\ sch[k].name = name
            /\ \A j \in 1..(k - 1) : sch[j].name # name
    ELSE 0

\* ScalarValue::iter_to_array: an array of the type of the first scalar;
\* an error for no scalar and for scalars of different types
IterToArray(scalars) ==
    IF scalars = <<>> \/ \E i \in DOMAIN scalars : scalars[i].t # scalars[1].t
    THEN NoneOf
    ELSE SomeOf(scalars)

\* get_min_max_values!, lines 479-513
GetMinMaxValues(rgs, sch, name, which) ==
    LET idx == ColumnWithName(sch, name) IN
    IF idx = 0 THEN NoneOf
    ELSE IF ~HasScalar(sch[idx].data_type) THEN NoneOf
    ELSE LET with_stats == SelectSeq(rgs, LAMBDA rg : rg[idx].present)
             scalar_values ==
                 [i \in 1..Len(with_stats) |->
                     LET maybe_scalar == GetStatistic(with_stats[i][idx], which) IN
                     IF maybe_scalar = <<>>
                     THEN NullScalar(sch[idx].data_type)
                     ELSE maybe_scalar[1]]
         IN IterToArray(scalar_values)

\* min_values that reads the maxima
MinValuesOfMax(rgs, sch, name) == GetMinMaxValues(rgs, sch, name, "max")

\* max_values that reads the minima
MaxValuesOfMin(rgs, sch, name) == GetMinMaxValues(rgs, sch, name, "min")

\* lines 516-518
MinValues(rgs, sch, name) == GetMinMaxValues(rgs, sch, name, "min")

\* lines 520-522
MaxValues(rgs, sch, name) == GetMinMaxValues(rgs, sch, name, "max")

\* lines 524-526
NumContainers(rgs) == Len(rgs)

(***************************************************************************)
(* PruningPredicate::prune, the predicate engine.  An expression is an     *)
(* atom or the AND / OR of two atoms; an atom compares a column with a     *)
(* literal (cmp), is an expression the engine has no statistics form for   *)
(* (unsupported, such as c2 % 2), or is one whose evaluation fails (fail). *)
(* A comparison is rewritten to the statistics: c > l to max > l, c >= l   *)
(* to max >= l, c < l to min < l, c <= l to min <= l, c = l to min <= l    *)
(* AND l <= max; an unsupported expression to TRUE.  A column the adapter  *)
(* gives no array for is an array of nulls; a null operand makes the       *)
(* result null, and a null result keeps the row group.  Arrays that are    *)
(* not as long as the number of containers make the evaluation fail.       *)
(***************************************************************************)
Atom(k, col, op, lit) == [k |-> k, col |-> col, op |-> op, lit |-> lit]

Single(a) == [kind |-> "atom", a |-> a, b |-> a]

Both(a, b) == [kind |-> "and", a |-> a, b |-> b]

Either(a, b) == [kind |-> "or", a |-> a, b |-> b]

AtomsOf(e) == IF e.kind = "atom" THEN {e.a} ELSE {e.a, e.b}

\* the statistics columns the rewritten atom reads
Required(atom) ==
    IF atom.k # "cmp" THEN {}
    ELSE CASE atom.op \in {">", ">="} -> {"max"}
           [] atom.op \in {"<", "<="} -> {"min"}
           [] atom.op = "=" -> {"min", "max"}

StatColumn(rgs, sch, name, which) ==
    LET a == IF which = "min" THEN MinValues(rgs, sch, name)
             ELSE MaxValues(rgs, sch, name)
    IN IF a.some THEN a.v
       ELSE [i \in 1..NumContainers(rgs) |-> NullScalar("Null")]

Test(x, op, y) ==
    CASE op = "<" -> x < y
      [] op = "<=" -> x <= y
      [] op = ">" -> x > y
      [] op = ">=" -> x >= y

Compare(s, op, lit) ==
    IF s.null THEN "N" ELSE IF Test(s.v, op, lit) THEN "T" ELSE "F"

And3(x, y) ==
    IF x = "N" \/ y = "N" THEN "N"
    ELSE IF x = "T" /\ y = "T" THEN "T" ELSE "F"

Or3(x, y) ==
    IF x = "N" \/ y = "N" THEN "N"
    ELSE IF x = "T" \/ y = "T" THEN "T" ELSE "F"

AtomValue(atom, rgs, sch, i) ==
    IF atom.k # "cmp" THEN "T"
    ELSE LET mn == StatColumn(rgs, sch, atom.col, "min")[i]
             mx == StatColumn(rgs, sch, atom.col, "max")[i]
         IN CASE atom.op \in {">", ">="} -> Compare(mx, atom.op, atom.lit)
              [] atom.op \in {"<", "<="} -> Compare(mn, atom.op, atom.lit)
              [] atom.op = "=" -> And3(Compare(mn, "<=", atom.lit),
                                       Compare(mx, ">=", atom.lit))

ExprValue(e, rgs, sch, i) ==
    CASE e.kind = "atom" -> AtomValue(e.a, rgs, sch, i)
      [] e.kind = "and" -> And3(AtomValue(e.a, rgs, sch, i),
                                AtomValue(e.b, rgs, sch, i))
      [] e.kind = "or" -> Or3(AtomValue(e.a, rgs, sch, i),
                              AtomValue(e.b, rgs, sch, i))

PruneFails(e, rgs, sch) ==
    \/ \E a \in AtomsOf(e) : a.k = "fail"
    \/ \E a \in AtomsOf(e) : \E w \in Required(a) :
          Len(StatColumn(rgs, sch, a.col, w)) # NumContainers(rgs)

\* Result<Vec<bool>>: TRUE means the row group may hold matching rows
Prune(e, rgs, sch) ==
    IF PruneFails(e, rgs, sch) THEN [ok |-> FALSE, values |-> <<>>]
    ELSE [ok |-> TRUE,
          values |-> [i \in 1..NumContainers(rgs) |->
                         ExprValue(e, rgs, sch, i) # "F"]]

(***************************************************************************)
(* build_row_group_predicate, lines 529-557.                               *)
(***************************************************************************)
\* the count of the row groups that are kept
NumKept(values) == Cardinality({i \in DOMAIN values : values[i]})

\* line 545
NumPruned(values) == Cardinality({i \in DOMAIN values : ~values[i]})

\* an evaluation error that is counted as one pruned row group
OnErrorPruned(m) == [m EXCEPT !.row_groups_pruned = @ + 1]

\* line 553
OnError(m) == [m EXCEPT !.predicate_evaluation_errors = @ + 1]

\* the closure of line 554 whatever the values are
KeepAll(values) == [kind |-> "all", values |-> <<>>]

\* the closure of line 547
KeepValues(values) == [kind |-> "values", values |-> values]

BuildRowGroupPredicate(pb, m, rgs) ==
    LET predicate_values == Prune(pb.expr, rgs, pb.schema) IN
    IF predicate_values.ok
    THEN [keep |-> KeepValues(predicate_values.values),
          metrics |-> [m EXCEPT !.row_groups_pruned =
                                    @ + NumPruned(predicate_values.values)]]
    ELSE [keep |-> [kind |-> "all", values |-> <<>>],
          metrics |-> OnError(m)]

\* the closure applied to the row group of index i (from 0)
Keep(fn, i) == IF fn.kind = "all" THEN TRUE ELSE fn.values[i + 1]

\* read_files, lines 575-582, for the row groups of one file
FilterRowGroups ==
    /\ scan = "built"
    /\ exec.predicate_builder.some
    /\ evaluations < MaxEvaluations
    /\ LET r == BuildRowGroupPredicate(exec.predicate_builder, metrics,
                                       row_group_metadata)
       IN /\ row_group_predicate' = r.keep
          /\ metrics' = r.metrics
    /\ evaluations' = evaluations + 1
    /\ UNCHANGED <<inputs, flight, elsewhere, exec, scan, panic, partitions, worker, chan, rx,
                   received, produced, hist>>

(***************************************************************************)
(* Scans with a predicate over the columns c1 (Int32, or a type without    *)
(* usable statistics) and c2 (Boolean) of files of up to MaxRowGroups row  *)
(* groups.  c3 is a column the files do not have.                          *)
(***************************************************************************)
Ops == {"=", "<", "<=", ">", ">="}

C1Atoms == {Atom("cmp", "c1", op, l) : op \in Ops, l \in 0..MaxStat}

C1Greater == {Atom("cmp", "c1", ">", l) : l \in 0..MaxStat}

\* c2 % 2
Unsupported == Atom("unsupported", "c2", "%", 2)

\* c2 = true
C2IsTrue == Atom("cmp", "c2", "=", 1)

C3Atom == Atom("cmp", "c3", ">", 0)

Failing == Atom("fail", "c1", ">", 0)

\* expressions that do not read the statistics of c2
ExprsC1 ==
    {Single(a) : a \in C1Atoms \cup {Unsupported, C3Atom, Failing}}
        \cup {Both(a, b) : a \in C1Greater, b \in {Unsupported, C3Atom}}
        \cup {Either(a, b) : a \in C1Greater, b \in {Unsupported, C3Atom}}

\* expressions that read them
ExprsC2 ==
    {Single(C2IsTrue)}
        \cup {Both(a, C2IsTrue) : a \in C1Greater}
        \cup {Either(a, C2IsTrue) : a \in C1Greater}

\* min <= max in the statistics a writer stores
OrderedPairs == {pr \in (0..MaxStat) \X (0..MaxStat) : pr[1] <= pr[2]}

C1Stats ==
    {NoStat, Stat("Int32", FALSE, 0, 0)}
        \cup {Stat("Int32", TRUE, pr[1], pr[2]) : pr \in OrderedPairs}

C2Plain == Stat("Boolean", TRUE, 0, 1)

C2Stats == {NoStat, Stat("Boolean", TRUE, 0, 0), C2Plain}

\* statistics of c1 that differ in what c1 > lit reads
C1Maxima ==
    {NoStat, Stat("Int32", FALSE, 0, 0)}
        \cup {Stat("Int32", TRUE, 0, hi) : hi \in 0..MaxStat}

PruneSchema(dt) ==
    <<[name |-> "c1", data_type |-> dt], [name |-> "c2", data_type |-> "Boolean"]>>

\* the kinds of scans: the type of c1, the expressions of the predicate and
\* the statistics a row group can hold
PruneInputs ==
    {[dt |-> "Int32", exprs |-> ExprsC1,
      stats |-> {<<st, C2Plain>> : st \in C1Stats}],
     [dt |-> "Int32", exprs |-> ExprsC2, stats |-> C1Maxima \X C2Stats],
     [dt |-> "Timestamp", exprs |-> ExprsC1,
      stats |-> {<<Stat("Int96", TRUE, 0, 0), C2Plain>>}],
     [dt |-> "FixedSizeBinary", exprs |-> ExprsC1,
      stats |-> {<<Stat("FixedLenByteArray", TRUE, 0, 0), C2Plain>>}]}

InitPrune ==
    /\ all_files = WithIds(<<[open |-> TRUE, rows |-> 1, fail |-> FALSE]>>)
    /\ max_concurrency = 1
    /\ batch_size = 1
    /\ limit = None
    /\ projection = NoneOf
    /\ statistics = NoStatistics
    /\ request = NoRequest
    /\ \E x \in PruneInputs :
          /\ schema = PruneSchema(x.dt)
          /\ \E n \in 0..MaxRowGroups :
                /\ row_group_metadata \in [1..n -> x.stats]
                /\ \E e \in x.exprs :
                      \E b \in (IF n = 0 THEN BOOLEAN ELSE {TRUE}) :
                         predicate = [some |-> TRUE, buildable |-> b,
                                      expr |-> e]
    /\ InitState

NextPrune ==
    \/ TryNew
    \/ FilterRowGroups

SpecPrune == InitPrune /\ [][NextPrune]_vars

(***************************************************************************)
(* Scans with a projection and statistics over files of up to MaxFields    *)
(* columns (ParquetExec::new through try_new).                             *)
(***************************************************************************)
\* columns of the files
MaxFields == 3
\* length of a projection
MaxProjection == 2

FieldNames == <<"c1", "c2", "c3", "c4", "c5">>

FileSchema(n) ==
    [k \in 1..n |-> [name |-> FieldNames[k], data_type |-> "Int32"]]

\* the ColumnStatistics of the columns of the files, one per column
FileColumnStatistics(n) == [k \in 1..n |-> [column |-> k - 1]]

Projections(n) ==
    {NoneOf} \cup {SomeOf(p) : p \in SeqsUpTo(0..(n - 1), MaxProjection)}

\* ParquetExec::schema
SchemaOf == exec.schema

\* ParquetStream.schema of a stream that execute returns
StreamSchema == exec.schema

\* the column indices read_files hands to get_record_reader_by_columns
ReaderColumns == exec.projection

\* ParquetExec::statistics
StatisticsOf == exec.statistics

InitNew ==
    /\ all_files = WithIds(<<[open |-> TRUE, rows |-> 1, fail |-> FALSE]>>)
    /\ max_concurrency = 1
    /\ batch_size = 1
    /\ limit = None
    /\ predicate = NoPredicate
    /\ row_group_metadata = <<>>
    /\ request = NoRequest
    /\ \E n \in 0..MaxFields :
          /\ schema = FileSchema(n)
          /\ projection \in Projections(n)
          /\ statistics \in
                [num_rows : {None} \cup 0..1,
                 total_byte_size : {None} \cup 0..1,
                 column_statistics : {NoneOf, SomeOf(FileColumnStatistics(n))}]
    /\ InitState

NextNew == TryNew

SpecNew == InitNew /\ [][NextNew]_vars

(***************************************************************************)
(* Executions of a scan with a predicate (execute, lines 348-382, and      *)
(* read_files, lines 559-619).  The scan has one partition, which is       *)
(* executed up to MaxRuns times, one after the other or at once.  A file   *)
(* has row groups, each with its statistics and its rows; its record       *)
(* reader yields the rows of the row groups that filter_row_groups kept,   *)
(* in order, in batches of batch_size.  A row is <<file, row group, row>>. *)
(***************************************************************************)
\* executions of the partition
MaxRuns == 2
\* files of the scan
MaxScanFiles == 2
\* row groups of a file
MaxScanGroups == 2

\* an execution that has just started: the channel of line 354, the task
\* of line 363 and the stream of line 378
NoRun ==
    [pc |-> "open", f |-> 1, k |-> 0, total_rows |-> 0, hand |-> NoItem,
     result |-> "none", keep |-> NoKeep, chan |-> <<>>, rx |-> "open",
     received |-> <<>>, evals |-> <<>>, handles |-> {}, tx |-> "held"]

\* a worker that keeps the reader of a file when it goes to the next file
EndOfFileKeepsReader(w) == [w EXCEPT !.pc = "open", !.f = w.f + 1, !.k = 0]

\* the end of the body of the loop over the files, lines 597 and 613: the
\* readers of the file are locals of the body and are dropped with it
EndOfFile(w) ==
    [w EXCEPT !.pc = "open", !.f = w.f + 1, !.k = 0, !.handles = {}]

\* read_files returns (lines 572-585 by `?`, 593, 590 and 605-611, 618):
\* its locals are dropped, and so is response_tx, which it owns
Return(w, result) ==
    [w EXCEPT !.pc = "done", !.result = result, !.hand = NoItem,
              !.handles = {}, !.tx = "dropped"]

\* file_reader.metadata().row_groups(), line 579
RowGroupsOf(file) ==
    [i \in 1..Len(file.row_groups) |-> file.row_groups[i].stats]

\* the rows of the row groups of a file that the closure keeps, in order
RECURSIVE KeptRowsFrom(_, _, _)
KeptRowsFrom(file, fn, g) ==
    IF g > Len(file.row_groups) THEN <<>>
    ELSE (IF Keep(fn, g - 1)
          THEN [r \in 1..file.row_groups[g].rows |-> <<file.id, g, r>>]
          ELSE <<>>) \o KeptRowsFrom(file, fn, g + 1)

\* a reader that was not told which row groups to skip
KeptRowsUnfiltered(file, fn) ==
    KeptRowsFrom(file, [kind |-> "all", values |-> <<>>], 1)

\* line 582: filter_row_groups
KeptRows(file, fn) == KeptRowsFrom(file, fn, 1)

\* the k-th batch (from 0) of a record reader over `rows`
BatchOf(file, rows, k, bs) ==
    [kind |-> "ok", file |-> file.id, idx |-> k,
     rows |-> Min(bs, Len(rows) - k * bs),
     ids |-> SubSeq(rows, k * bs + 1, Min((k + 1) * bs, Len(rows)))]

\* what one evaluation of the predicate on a file did to the counters
Evaluation(file, b) ==
    [file |-> file.id, ok |-> b.keep.kind = "values",
     pruned |-> IF b.keep.kind = "values"
                THEN Len(SelectSeq(b.keep.values, LAMBDA v : ~v)) ELSE 0]

\* what a worker holds between batch_reader.next() and the end of its send
InHandOf(w) == IF w.hand = NoItem THEN <<>> ELSE <<w.hand>>

\* ParquetExec::execute(0), lines 348-382
RunExecute ==
    /\ scan = "built"
    /\ Len(runs) < MaxRuns
    /\ runs' = Append(runs, NoRun)
    /\ UNCHANGED <<inputs, built, flight, rpcs, config, local, scan, panic,
                   partitions, worker, chan, rx, received, produced, hist>>

\* read_files, lines 571-585: the next iteration of the loop over the files
RunOpen(r) ==
    /\ runs[r].pc = "open"
    /\ LET w == runs[r]
           files == partitions[1]
           pb == exec.predicate_builder
       IN IF w.f > Len(files)
          THEN /\ runs' = [runs EXCEPT ![r] = Return(w, "ok")]
               /\ UNCHANGED metrics
          ELSE IF ~files[w.f].open
          THEN /\ runs' = [runs EXCEPT ![r] = Return(w, "err_open")]
               /\ UNCHANGED metrics
          ELSE \E file \in {files[w.f]} :
               \E b \in {IF pb.some
                          THEN BuildRowGroupPredicate(pb, metrics,
                                                      RowGroupsOf(file))
                          ELSE [keep |-> [kind |-> "all", values |-> <<>>],
                                metrics |-> metrics]} :
               \E e \in {IF pb.some
                          THEN Append(w.evals, Evaluation(file, b))
                          ELSE w.evals} :
                  /\ metrics' = b.metrics
                  /\ runs' = [runs EXCEPT ![r] =
                       IF file.columns
                       THEN [w EXCEPT !.pc = "next", !.k = 0, !.keep = b.keep,
                                      !.evals = e,
                                      !.handles = @ \cup {file.id}]
                       ELSE Return([w EXCEPT !.evals = e], "err_open")]
    /\ UNCHANGED <<inputs, flight, rpcs, config, local, exec,
                   row_group_predicate, evaluations, scan, panic, partitions,
                   worker, chan, rx, received, produced, hist>>

\* read_files, lines 587-589 and 595-603: batch_reader.next()
RunNext(r) ==
    /\ runs[r].pc = "next"
    /\ LET w == runs[r]
           file == partitions[1][w.f]
           rows == KeptRows(file, w.keep)
       IN runs' = [runs EXCEPT ![r] =
            IF w.k < NumBatches(Len(rows), batch_size)
            THEN LET b == BatchOf(file, rows, w.k, batch_size)
                 IN [w EXCEPT !.pc = "send", !.hand = b,
                              !.total_rows = w.total_rows + b.rows]
            ELSE IF file.fail
            THEN [w EXCEPT !.pc = "send",
                           !.hand = ErrItem(file, w.k)]
            ELSE EndOfFile(w)]
    /\ UNCHANGED <<inputs, built, flight, rpcs, config, local, scan, panic,
                   partitions, worker, chan, rx, received, produced, hist>>

\* send_result, lines 434-443, and what read_files does with its outcome
RunSend(r) ==
    /\ runs[r].pc = "send"
    /\ LET w == runs[r] IN
       IF SendFails(w.rx)
       THEN runs' = [runs EXCEPT ![r] = Return(w, "err_send")]
       ELSE /\ Len(w.chan) < ChannelCapacity
            /\ runs' = [runs EXCEPT ![r] =
                 LET sent == [w EXCEPT !.chan = Append(@, w.hand),
                                       !.hand = NoItem, !.k = w.k + 1]
                 IN IF AfterSend(w.hand, limit, w.total_rows) = "done"
                    THEN Return(sent, IF w.hand.kind = "err"
                                      THEN "err_decode" ELSE "ok")
                    ELSE [sent EXCEPT !.pc = "next"]]
    /\ UNCHANGED <<inputs, built, flight, rpcs, config, local, scan, panic,
                   partitions, worker, chan, rx, received, produced, hist>>

\* the stream has returned None
RunEnded(items) ==
    IF items = <<>> THEN FALSE ELSE items[Len(items)].kind = "eos"

\* ParquetStream::poll_next, lines 637-642, when it returns Ready
RunPoll(r) ==
    /\ runs[r].rx = "open"
    /\ LET w == runs[r] IN
       IF w.chan # <<>>
       THEN runs' = [runs EXCEPT ![r] =
                [w EXCEPT !.received = Append(@, RecvItem(w.chan)),
                          !.chan = RecvRest(@)]]
       ELSE /\ w.tx = "dropped"
            /\ ~RunEnded(w.received)
            /\ runs' = [runs EXCEPT ![r] =
                [w EXCEPT !.received = Append(@, Eos)]]
    /\ UNCHANGED <<inputs, built, flight, rpcs, config, local, scan, panic,
                   partitions, worker, chan, rx, received, produced, hist>>

\* the consumer drops the stream
RunDrop(r) ==
    /\ runs[r].rx = "open"
    /\ runs' = [runs EXCEPT ![r] = [@ EXCEPT !.rx = "dropped", !.chan = <<>>]]
    /\ UNCHANGED <<inputs, built, flight, rpcs, config, local, scan, panic,
                   partitions, worker, chan, rx, received, produced, hist>>

\* statistics of c1 that c1 > 1 prunes, keeps, and cannot read
ScanStats ==
    {Stat("Int32", TRUE, 0, 1), Stat("Int32", TRUE, 0, 2), NoStat}

\* row groups of one row
ScanGroups == {[stats |-> <<st, C2Plain>>, rows |-> 1] : st \in ScanStats}

\* a file by whether get_reader and SerializedFileReader::new succeed on it
\* (open), whether get_record_reader_by_columns does (columns), whether its
\* batch reader ends with Some(Err) (fail), and by its row groups
ScanFile(open, columns, fail, row_groups) ==
    [open |-> open, columns |-> columns, fail |-> fail,
     row_groups |-> row_groups]

\* the files that can be read to their end
ScanFileKinds ==
    {ScanFile(TRUE, TRUE, FALSE, gs) : gs \in SeqsUpTo(ScanGroups, MaxScanGroups)}

\* a file of a row group that c1 > 1 prunes, one of a row group that it
\* keeps, and the files that fail: before the predicate is evaluated, after
\* it, and at the end of the batches
ScanFileKindsFew ==
    LET pruned == <<[stats |-> <<Stat("Int32", TRUE, 0, 1), C2Plain>>, rows |-> 1]>>
        kept == <<[stats |-> <<Stat("Int32", TRUE, 0, 2), C2Plain>>, rows |-> 1]>>
    IN  {ScanFile(TRUE, TRUE, FALSE, pruned), ScanFile(TRUE, TRUE, FALSE, kept),
         ScanFile(FALSE, TRUE, FALSE, <<>>), ScanFile(TRUE, FALSE, FALSE, pruned),
         ScanFile(TRUE, TRUE, TRUE, kept)}

WithScanIds(kinds) ==
    [i \in 1..Len(kinds) |->
        [id |-> i, open |-> kinds[i].open, columns |-> kinds[i].columns,
         fail |-> kinds[i].fail, row_groups |-> kinds[i].row_groups]]

\* none, c1 > 1, and an expression whose evaluation fails
ScanPredicates ==
    {NoPredicate,
     [some |-> TRUE, buildable |-> TRUE,
      expr |-> Single(Atom("cmp", "c1", ">", 1))],
     [some |-> TRUE, buildable |-> TRUE, expr |-> Single(Failing)]}

InitScan ==
    /\ \E first \in ScanFileKinds \cup ScanFileKindsFew :
       \E n \in 0..(MaxScanFiles - 1) :
       \E ks \in [1..n -> ScanFileKindsFew] :
          all_files = WithScanIds(<<first>> \o ks)
    /\ max_concurrency = 1
    /\ batch_size \in 1..MaxBatchSize
    /\ limit \in {None, 1}
    /\ schema = PruneSchema("Int32")
    /\ projection = NoneOf
    /\ predicate \in ScanPredicates
    /\ statistics = NoStatistics
    /\ row_group_metadata = <<>>
    /\ request = NoRequest
    /\ InitState

\* the partition is executed once
RunExecuteFirst == runs = <<>> /\ RunExecute

NextScan ==
    \/ TryNew
    \/ RunExecuteFirst
    \/ \E r \in DOMAIN runs : RunOpen(r)
    \/ \E r \in DOMAIN runs : RunNext(r)
    \/ \E r \in DOMAIN runs : RunSend(r)
    \/ \E r \in DOMAIN runs : RunPoll(r)
    \/ \E r \in DOMAIN runs : RunDrop(r)

SpecScan == InitScan /\ [][NextScan]_vars

\* the thread of spawn_blocking (line 363) runs read_files whenever it can
\* take a step
RunStep(r) ==
    /\ r \in DOMAIN runs
    /\ RunOpen(r) \/ RunNext(r) \/ RunSend(r)

\* a consumer that polls its stream for as long as it holds it
RunPolled(r) == r \in DOMAIN runs /\ RunPoll(r)

\* the scans without predicate that read batches of one row
InitScanLive == InitScan /\ batch_size = 1 /\ ~predicate.some

\* fair scheduling of the worker and of the consumer's polls; the consumer
\* is free to drop the stream at any time
SpecScanLive ==
    /\ InitScanLive
    /\ [][NextScan]_vars
    /\ WF_vars(RunStep(1))
    /\ WF_vars(RunPolled(1))

\* scans whose partition is executed several times: files of at most one
\* row group, read in batches of one row without limit
InitRerun ==
    /\ InitScan
    /\ batch_size = 1
    /\ limit = None
    /\ \A i \in 1..Len(all_files) : Len(all_files[i].row_groups) <= 1

NextRerun ==
    \/ TryNew
    \/ RunExecute
    \/ \E r \in DOMAIN runs : RunOpen(r)
    \/ \E r \in DOMAIN runs : RunNext(r)
    \/ \E r \in DOMAIN runs : RunSend(r)
    \/ \E r \in DOMAIN runs : RunPoll(r)
    \/ \E r \in DOMAIN runs : RunDrop(r)

SpecRerun == InitRerun /\ [][NextRerun]_vars

(***************************************************************************)
(* The flight service of the ballista executor                             *)
(* (ballista/rust/executor/src/flight_service.rs): do_get decodes the      *)
(* ticket, creates a channel of capacity 2 and spawns stream_flight_data,  *)
(* which pushes the frames of the partition file through the channel to    *)
(* the remote consumer of the returned stream.                             *)
(***************************************************************************)
\* record batches of a partition file
MaxBatches == 2
\* dictionaries of one record batch
MaxDicts == 1

\* everything of the parquet scan
parquet == <<inputs, built, scan, panic, partitions, worker, chan, rx,
             received, produced, hist, runs>>

SchemaFrame == [kind |-> "schema", batch |-> 0, n |-> 0]

DictFrame(b, j) == [kind |-> "dict", batch |-> b, n |-> j]

BatchFrame(b) == [kind |-> "batch", batch |-> b, n |-> 0]

FlightEos == [kind |-> "eos", batch |-> 0, n |-> 0]

\* an Err(Status) item of the stream
ErrFrame == [kind |-> "err", batch |-> 0, n |-> 0]

\* create_flight_iter with the batch ahead of its dictionaries
CreateFlightIterBatchFirst(b, d) ==
    <<BatchFrame(b)>> \o [j \in 1..d |-> DictFrame(b, j)]

\* create_flight_iter, lines 177-189, for batch b (from 1) of d dictionaries
CreateFlightIter(b, d) ==
    [j \in 1..d |-> DictFrame(b, j)] \o <<BatchFrame(b)>>

\* channel(3)
FlightCapacityThree == 2 + 1

\* line 90: channel(2)
FlightCapacity == 2

\* a send that goes through although the receiver is gone
FlightSendFailsNever(r) == FALSE

\* lines 228-230: tx.send fails iff the receiver was dropped
FlightSendFails(r) == r = "dropped"

\* do_get, lines 78-105
DoGet ==
    /\ call = "none"
    /\ IF ~request.decodable
       THEN /\ call' = "err"
            /\ UNCHANGED <<task, frx>>
       ELSE /\ call' = "ok"
            /\ task' = [task EXCEPT !.pc = "open"]
            /\ frx' = "open"
    /\ UNCHANGED <<parquet, elsewhere, request, fchan, freceived>>

\* stream_flight_data, lines 192-205: up to the first send
TaskOpen ==
    /\ task.pc = "open"
    /\ task' =
          IF ~request.file.open
          THEN [task EXCEPT !.pc = "done", !.result = "err_open"]
          ELSE IF ~request.file.meta
          THEN [task EXCEPT !.pc = "done", !.result = "err_meta"]
          ELSE [task EXCEPT !.pc = "send", !.q = <<SchemaFrame>>]
    /\ UNCHANGED <<parquet, elsewhere, request, call, fchan, frx, freceived>>

\* send_response, lines 224-231, for the next frame in hand (lines 206 and
\* 216-218): the send waits while the channel is full and fails when the
\* receiver is gone
TaskSend ==
    /\ task.pc = "send"
    /\ IF FlightSendFails(frx)
       THEN /\ task' = [task EXCEPT !.pc = "done", !.result = "err_send",
                                    !.q = <<>>]
            /\ UNCHANGED fchan
       ELSE /\ Len(fchan) < FlightCapacity
            /\ fchan' = Append(fchan, Head(task.q))
            /\ task' = [task EXCEPT !.q = Tail(task.q),
                                    !.pc = IF Len(task.q) = 1 THEN "read"
                                           ELSE "send"]
    /\ UNCHANGED <<parquet, elsewhere, request, call, frx, freceived>>

\* stream_flight_data, lines 209-215 and 220-221: the next batch of the
\* reader, or its end
TaskRead ==
    /\ task.pc = "read"
    /\ LET dicts == request.file.dicts IN
       IF task.b < Len(dicts)
       THEN task' = [task EXCEPT !.pc = "send", !.b = task.b + 1,
                                 !.reads = task.reads + 1,
                                 !.reads_after_drop =
                                     IF frx = "dropped" THEN @ + 1 ELSE @,
                                 !.q = CreateFlightIter(task.b + 1,
                                                        dicts[task.b + 1])]
       ELSE IF request.file.fail
       THEN task' = [task EXCEPT !.pc = "done", !.result = "err_decode"]
       ELSE task' = [task EXCEPT !.pc = "done", !.result = "ok"]
    /\ UNCHANGED <<parquet, elsewhere, request, call, fchan, frx, freceived>>

\* the stream has yielded its end
Ended(items) == IF items = <<>> THEN FALSE ELSE items[Len(items)] = FlightEos

\* the remote consumer polls the stream: the oldest frame, or the end once
\* the sender is gone and the channel is empty
FlightNext ==
    /\ frx = "open"
    /\ ~Ended(freceived)
    /\ IF fchan # <<>>
       THEN /\ freceived' = Append(freceived, Head(fchan))
            /\ fchan' = Tail(fchan)
       ELSE /\ task.pc = "done"
            /\ freceived' = Append(freceived, FlightEos)
            /\ UNCHANGED fchan
    /\ UNCHANGED <<parquet, elsewhere, request, call, task, frx>>

\* the remote consumer drops the stream
FlightDrop ==
    /\ frx = "open"
    /\ frx' = "dropped"
    /\ fchan' = <<>>
    /\ UNCHANGED <<parquet, elsewhere, request, call, task, freceived>>

(***************************************************************************)
(* The other methods of the flight service, lines 107-172.                 *)
(***************************************************************************)
\* frames of an inbound stream of do_put
MaxInbound == 2

\* get_schema, get_flight_info, handshake, list_flights, list_actions,
\* do_exchange: lines 107-133 and 160-172
CallUnary(m) ==
    /\ ~rpc[m].called
    /\ rpc' = [rpc EXCEPT ![m] = [called |-> TRUE, decodable |-> TRUE,
                                  result |-> "unimplemented"]]
    /\ UNCHANGED <<parquet, flight, put, config, local>>

\* the status of do_action when the body is not looked at
DoActionStatusUndecoded(decodable) == "unimplemented"

\* lines 154-157
DoActionStatus(decodable) ==
    IF decodable THEN "unimplemented" ELSE "internal"

\* do_action, lines 148-158
DoAction ==
    /\ ~rpc["do_action"].called
    /\ \E d \in BOOLEAN :
          rpc' = [rpc EXCEPT !["do_action"] =
                      [called |-> TRUE, decodable |-> d,
                       result |-> DoActionStatus(d)]]
    /\ UNCHANGED <<parquet, flight, put, config, local>>

\* do_put, lines 135-139: the call with its inbound stream
DoPut ==
    /\ put.pc = "none"
    /\ \E s \in SeqsUpTo({"ok", "err"}, MaxInbound) :
          put' = [put EXCEPT !.pc = "next", !.inbound = s]
    /\ UNCHANGED <<parquet, flight, rpc, config, local>>

\* do_put that goes on after a frame that is an error
DoPutStepLenient(pt) ==
    IF pt.read < Len(pt.inbound)
    THEN [pt EXCEPT !.read = @ + 1]
    ELSE [pt EXCEPT !.pc = "done", !.result = "unimplemented"]

\* do_put, lines 141-145: one turn of the loop, or its end
DoPutStep(pt) ==
    IF pt.read < Len(pt.inbound)
    THEN IF pt.inbound[pt.read + 1] = "err"
         THEN [pt EXCEPT !.read = @ + 1, !.pc = "done", !.result = "frame_error"]
         ELSE [pt EXCEPT !.read = @ + 1]
    ELSE [pt EXCEPT !.pc = "done", !.result = "unimplemented"]

DoPutNext ==
    /\ put.pc = "next"
    /\ put' = DoPutStep(put)
    /\ UNCHANGED <<parquet, flight, rpc, config, local>>

FlightFiles ==
    [open : BOOLEAN, meta : BOOLEAN,
     dicts : SeqsUpTo(0..MaxDicts, MaxBatches), fail : BOOLEAN]

InitFlight ==
    /\ all_files = <<>>
    /\ max_concurrency = 1
    /\ batch_size = 1
    /\ limit = None
    /\ schema = <<>>
    /\ projection = NoneOf
    /\ predicate = NoPredicate
    /\ statistics = NoStatistics
    /\ row_group_metadata = <<>>
    /\ request \in [decodable : BOOLEAN, file : FlightFiles]
    /\ InitState

NextFlight ==
    \/ DoGet
    \/ TaskOpen
    \/ TaskSend
    \/ TaskRead
    \/ FlightNext
    \/ FlightDrop
    \/ DoAction

SpecFlight == InitFlight /\ [][NextFlight]_vars

\* nothing to scan and nothing to fetch
InitIdle ==
    /\ all_files = <<>>
    /\ max_concurrency = 1
    /\ batch_size = 1
    /\ limit = None
    /\ PlainScan
    /\ InitState

NextRpc ==
    \/ \E m \in Unary : CallUnary(m)
    \/ DoAction
    \/ DoPut
    \/ DoPutNext

SpecRpc == InitIdle /\ [][NextRpc]_vars

(***************************************************************************)
(* RuntimeConfig, execution/runtime_env.rs lines 81-122.                   *)
(***************************************************************************)
\* the arguments of with_batch_size and with_max_execution_memory
MaxN == 2

\* the directories of with_local_dirs
MaxDirs == 2

\* the calls on one configuration
MaxCalls == 3

\* line 117
DefaultBatchSize == 8192

\* usize::MAX of line 118, at the width of the integers of the model: no
\* argument of a call is larger
UsizeMax == 2147483647

\* a call that panicked returns no configuration
Aborted(op) ==
    [NoConfig EXCEPT !.status = "aborted", !.last = op, !.rejected = TRUE]

\* Default::default, lines 110-122, when the temporary directory was made
DefaultConfig ==
    [status |-> "ok", batch_size |-> DefaultBatchSize, max_memory |-> UsizeMax,
     local_dirs |-> <<"tmp">>, calls |-> 0, last |-> "new", rejected |-> FALSE]

\* RuntimeConfig::new, lines 83-85: tempfile::tempdir().unwrap() panics when
\* the directory cannot be made
ConfigNew ==
    /\ config.status = "none"
    /\ \E made \in BOOLEAN :
          config' = IF made THEN DefaultConfig
                    ELSE [Aborted("new") EXCEPT !.rejected = FALSE]
    /\ UNCHANGED <<parquet, flight, rpcs, local>>

\* with_batch_size without its assertion
WithBatchSizeUnchecked(c, n) ==
    [c EXCEPT !.batch_size = n, !.calls = @ + 1, !.last = "with_batch_size",
              !.rejected = FALSE]

\* lines 88-93
WithBatchSize(c, n) ==
    IF n > 0
    THEN [c EXCEPT !.batch_size = n, !.calls = @ + 1,
                   !.last = "with_batch_size", !.rejected = FALSE]
    ELSE Aborted("with_batch_size")

\* lines 96-100
WithMaxExecutionMemory(c, max_memory) ==
    IF max_memory > 0
    THEN [c EXCEPT !.max_memory = max_memory, !.calls = @ + 1,
                   !.last = "with_max_execution_memory", !.rejected = FALSE]
    ELSE Aborted("with_max_execution_memory")

\* lines 103-107
WithLocalDirs(c, local_dirs) ==
    IF local_dirs # <<>>
    THEN [c EXCEPT !.local_dirs = local_dirs, !.calls = @ + 1,
                   !.last = "with_local_dirs", !.rejected = FALSE]
    ELSE Aborted("with_local_dirs")

ConfigWithBatchSize ==
    /\ config.status = "ok"
    /\ config.calls < MaxCalls
    /\ \E n \in 0..MaxN : config' = WithBatchSize(config, n)
    /\ UNCHANGED <<parquet, flight, rpcs, local>>

ConfigWithMaxExecutionMemory ==
    /\ config.status = "ok"
    /\ config.calls < MaxCalls
    /\ \E n \in (0..MaxN) \cup {UsizeMax} :
          config' = WithMaxExecutionMemory(config, n)
    /\ UNCHANGED <<parquet, flight, rpcs, local>>

ConfigWithLocalDirs ==
    /\ config.status = "ok"
    /\ config.calls < MaxCalls
    /\ \E dirs \in SeqsUpTo({"a", "b"}, MaxDirs) :
          config' = WithLocalDirs(config, dirs)
    /\ UNCHANGED <<parquet, flight, rpcs, local>>

NextConfig ==
    \/ ConfigNew
    \/ ConfigWithBatchSize
    \/ ConfigWithMaxExecutionMemory
    \/ ConfigWithLocalDirs

SpecConfig == InitIdle /\ [][NextConfig]_vars

(***************************************************************************)
(* LocalFileSystem::list_all_files, datasource/local.rs lines 95-124.      *)
(***************************************************************************)
\* entries of the root directory
MaxEntries == 2

\* entries of a directory below the root
MaxSubEntries == 1

\* what a path names: kind is "missing", "file", "dir", "bad_entry" (the
\* directory iterator fails on it) or "non_utf8"; ext tells whether the name
\* ends with the extension; a directory is readable or not and has entries
Node(kind, ext, readable, entries) ==
    [kind |-> kind, ext |-> ext, readable |-> readable, entries |-> entries]

Leaves ==
    {Node("file", TRUE, TRUE, <<>>), Node("file", FALSE, TRUE, <<>>),
     Node("bad_entry", FALSE, TRUE, <<>>), Node("non_utf8", FALSE, TRUE, <<>>)}

SubDirs ==
    {Node("dir", FALSE, TRUE, es) : es \in SeqsUpTo(Leaves, MaxSubEntries)}
        \cup {Node("dir", FALSE, FALSE, <<>>)}

Trees ==
    {Node("missing", FALSE, TRUE, <<>>), Node("file", TRUE, TRUE, <<>>),
     Node("file", FALSE, TRUE, <<>>), Node("dir", FALSE, FALSE, <<>>)}
        \cup {Node("dir", FALSE, TRUE, es) :
                 es \in SeqsUpTo(Leaves \cup SubDirs, MaxEntries)}

\* the result of a walk and the accumulator after it
WalkResult(err, filenames) ==
    [ok |-> err = "none", err |-> err, filenames |-> filenames]

RECURSIVE ListAllFiles(_, _, _)
RECURSIVE ListEntries(_, _, _, _)

\* list_all_files, lines 102-124; a path is named by the positions that lead
\* to it from the root
ListAllFiles(dir, path, filenames) ==
    IF dir.kind = "missing" THEN WalkResult("io", filenames)
    ELSE IF dir.kind = "file"
    THEN WalkResult("none",
                    IF dir.ext THEN Append(filenames, path) ELSE filenames)
    ELSE IF ~dir.readable THEN WalkResult("io", filenames)
    ELSE ListEntries(dir.entries, 1, path, filenames)

\* the loop of lines 109-121 from entry i on
ListEntries(entries, i, path, filenames) ==
    IF i > Len(entries) THEN WalkResult("none", filenames)
    ELSE LET entry == entries[i]
             path_name == Append(path, i)
         IN  IF entry.kind = "bad_entry" THEN WalkResult("io", filenames)
             ELSE IF entry.kind = "non_utf8"
             THEN WalkResult("invalid_path", filenames)
             ELSE IF entry.kind = "dir"
             THEN LET r == ListAllFiles(entry, path_name, filenames)
                  IN  IF r.ok
                      THEN ListEntries(entries, i + 1, path, r.filenames)
                      ELSE r
             ELSE ListEntries(entries, i + 1, path,
                              IF entry.ext THEN Append(filenames, path_name)
                              ELSE filenames)

\* list_all that returns what the walk returned
ListAllChecked(root) ==
    LET r == ListAllFiles(root, <<>>, <<>>)
    IN  [ok |-> r.ok, names |-> IF r.ok THEN r.filenames ELSE <<>>]

\* list_all, lines 95-99: the result of the walk is dropped
ListAll(root) ==
    LET r == ListAllFiles(root, <<>>, <<>>)
    IN  [ok |-> TRUE, names |-> r.filenames]

\* LocalFileSystem::list_all_files, lines 36-38
CallListAll ==
    /\ ~listing.called
    /\ \E root \in Trees :
          LET r == ListAll(root)
          IN  listing' = [called |-> TRUE, tree |-> root,
                          ok |-> r.ok, names |-> r.names]
    /\ UNCHANGED <<parquet, flight, rpcs, config, object, segments>>

NextList == CallListAll

SpecList == InitIdle /\ [][NextList]_vars

(***************************************************************************)
(* LocalFSObjectReader and FileSegmentReader, datasource/local.rs lines    *)
(* 40-93.  The byte at an offset of the file is written as the offset.     *)
(***************************************************************************)
\* bytes of a file
MaxFileLen == 3

\* segments made from one object reader
MaxSegments == 2

\* the capacity of the BufReader of line 65, scaled as the files are
BufCapacity == 2

\* the length of the buffer a caller passes to read
MaxRead == 2

\* the bytes at n offsets from a on
Offsets(a, n) == [k \in 1..n |-> a + k - 1]

\* read(2) of at most n bytes at the cursor of the open file description
FileRead(obj, n) ==
    LET got == IF obj.cursor >= obj.len THEN 0
               ELSE Min(n, obj.len - obj.cursor)
    IN  [bytes |-> Offsets(obj.cursor, got), cursor |-> obj.cursor + got]

\* LocalFileSystem::get_reader, lines 40-44: File::open
OpenObject ==
    /\ ~object.opened
    /\ \E len \in 0..MaxFileLen :
          object' = [opened |-> TRUE, len |-> len, cursor |-> 0]
    /\ UNCHANGED <<parquet, flight, rpcs, config, listing, segments>>

\* FileSegmentReader::new, lines 64-72: an empty buffer over the handle
FileSegmentReaderNew(start, length) ==
    [start |-> start, length |-> length, buf |-> <<>>, out |-> <<>>,
     eof |-> FALSE]

\* line 66: SeekFrom::Current moves the cursor of the handle by start
SeekCurrent(obj, start) == [obj EXCEPT !.cursor = @ + start]

\* LocalFSObjectReader::get_reader, lines 82-88: try_clone gives a handle
\* on the same open file description, so on the same cursor
GetReader ==
    /\ object.opened
    /\ Len(segments) < MaxSegments
    /\ \E start \in 0..object.len :
       \E length \in 0..(object.len - start) :
          /\ segments' = Append(segments, FileSegmentReaderNew(start, length))
          /\ object' = SeekCurrent(object, start)
    /\ UNCHANGED <<parquet, flight, rpcs, config, listing>>

\* BufReader::read into a buffer of n bytes: from its buffer when that holds
\* bytes, straight from the file when n is at least the capacity, and else
\* after it filled its buffer from the file
BufRead(seg, obj, n) ==
    IF seg.buf # <<>>
    THEN LET k == Min(n, Len(seg.buf))
         IN  [seg |-> [seg EXCEPT !.out = @ \o SubSeq(seg.buf, 1, k),
                                  !.buf = SubSeq(@, k + 1, Len(@))],
              cursor |-> obj.cursor]
    ELSE IF n >= BufCapacity
    THEN LET r == FileRead(obj, n)
         IN  [seg |-> [seg EXCEPT !.out = @ \o r.bytes,
                                  !.eof = r.bytes = <<>>],
              cursor |-> r.cursor]
    ELSE LET r == FileRead(obj, BufCapacity)
             k == Min(n, Len(r.bytes))
         IN  [seg |-> [seg EXCEPT !.out = @ \o SubSeq(r.bytes, 1, k),
                                  !.buf = SubSeq(r.bytes, k + 1, Len(r.bytes)),
                                  !.eof = r.bytes = <<>>],
              cursor |-> r.cursor]

\* FileSegmentReader::read, lines 76-78
SegRead(i) ==
    /\ ~segments[i].eof
    /\ \E n \in 1..MaxRead :
          LET r == BufRead(segments[i], object, n)
          IN  /\ segments' = [segments EXCEPT ![i] = r.seg]
              /\ object' = [object EXCEPT !.cursor = r.cursor]
    /\ UNCHANGED <<parquet, flight, rpcs, config, listing>>

NextSegment ==
    \/ OpenObject
    \/ GetReader
    \/ \E i \in 1..Len(segments) : SegRead(i)

SpecSegment == InitIdle /\ [][NextSegment]_vars

(***************************************************************************)
(* Helpers of the properties.                                              *)
(***************************************************************************)
RECURSIVE Concat(_)
Concat(ss) == IF ss = <<>> THEN <<>> ELSE Head(ss) \o Concat(Tail(ss))

RECURSIVE Rows(_)
Rows(items) == IF items = <<>> THEN 0 ELSE Head(items).rows + Rows(Tail(items))

IsEos(x) == x.kind = "eos"

NotEos(x) == x.kind # "eos"

\* the Ok and Err items of a stream's history, without the end-of-stream marks
Items(seq) == SelectSeq(seq, NotEos)

IsPrefix(a, b) == Len(a) <= Len(b) /\ SubSeq(b, 1, Len(a)) = a

CeilDiv(a, b) == (a + b - 1) \div b

Sizes(ps) == [p \in DOMAIN ps |-> Len(ps[p])]

\* what the worker holds between batch_reader.next() and the end of its send
InHand(p) == IF worker[p].hand = NoItem THEN <<>> ELSE <<worker[p].hand>>

\* The items read_files sends for a list of files when it runs alone and no
\* send fails: lines 569-619 followed sequentially, from file f, batch k
RECURSIVE SoloFrom(_, _, _, _)
SoloFrom(files, f, k, total) ==
    IF f > Len(files) THEN <<>>
    ELSE IF ~files[f].open THEN <<>>
    ELSE IF k < NumBatches(files[f].rows, batch_size)
         THEN LET b == OkItem(files[f], k, batch_size) IN
              IF limit # None /\ total + b.rows >= limit
              THEN <<b>>
              ELSE <<b>> \o SoloFrom(files, f, k + 1, total + b.rows)
         ELSE IF files[f].fail THEN <<ErrItem(files[f], k)>>
              ELSE SoloFrom(files, f + 1, 0, total)

SoloItems(p) == SoloFrom(partitions[p], 1, 0, 0)

(***************************************************************************)
(* C1.  For every non-empty file list and every max_concurrency >= 1 the   *)
(* planner builds at most max_concurrency partitions, none of them empty,  *)
(* whose file lists concatenated in partition order are the discovered     *)
(* list; every file of partition i was discovered before every file of a   *)
(* later partition j.                                                      *)
(***************************************************************************)
C1_PartitionsCoverFilesInOrder ==
    (scan # "new" /\ all_files # <<>>) =>
        /\ scan = "built"
        /\ Len(partitions) <= max_concurrency
        /\ \A p \in Parts : partitions[p] # <<>>
        /\ Concat(partitions) = all_files
        /\ \A i, j \in Parts : i < j =>
              \A a \in DOMAIN partitions[i], b \in DOMAIN partitions[j] :
                 partitions[i][a].id < partitions[j][b].id

C1_Witness ==
    /\ scan = "built"
    /\ Len(all_files) = 5
    /\ max_concurrency = 2
    /\ Sizes(partitions) = <<3, 2>>

(***************************************************************************)
(* C10 as claimed.  The planner builds exactly max_concurrency partitions  *)
(* when there are at least that many files and one single-file partition   *)
(* per file otherwise; all partitions but the last hold ceil(n / N) files, *)
(* the last between 1 and ceil(n / N); output_partitioning reports the     *)
(* number of partitions.                                                   *)
(***************************************************************************)
C10_ExactlyNPartitions ==
    scan = "built" =>
        LET n == Len(all_files)
            N == max_concurrency
            c == CeilDiv(n, N)
        IN /\ Len(partitions) = (IF n >= N THEN N ELSE n)
           /\ \A p \in Parts : p < Len(partitions) => Len(partitions[p]) = c
           /\ Len(partitions[Len(partitions)]) \in 1..c
           /\ OutputPartitioning = Len(partitions)

(***************************************************************************)
(* C10 as amended.  The planner builds ceil(n / ceil(n / N)) partitions,   *)
(* which is at most N, is N when N divides n and is n (single-file         *)
(* partitions) when n <= N; all partitions but the last hold ceil(n / N)   *)
(* files, the last between 1 and ceil(n / N); output_partitioning reports  *)
(* the number of partitions; 5 files give [5], [3,2] and [1,1,1,1,1] for   *)
(* N = 1, 2 and N >= 5.                                                    *)
(***************************************************************************)
C10_PartitionCountAndSizes ==
    scan = "built" =>
        LET n == Len(all_files)
            N == max_concurrency
            c == CeilDiv(n, N)
        IN /\ Len(partitions) = CeilDiv(n, c)
           /\ Len(partitions) <= N
           /\ (n % N = 0 => Len(partitions) = N)
           /\ (n <= N => Sizes(partitions) = [p \in 1..n |-> 1])
           /\ \A p \in Parts : p < Len(partitions) => Len(partitions[p]) = c
           /\ Len(partitions[Len(partitions)]) \in 1..c
           /\ OutputPartitioning = CeilDiv(n, c)
           /\ (n = 5 /\ N = 1 => Sizes(partitions) = <<5>>)
           /\ (n = 5 /\ N = 2 => Sizes(partitions) = <<3, 2>>)
           /\ (n = 5 /\ N >= 5 => Sizes(partitions) = <<1, 1, 1, 1, 1>>)

C10_Witness ==
    /\ scan = "built"
    /\ Len(all_files) = 4
    /\ max_concurrency = 3
    /\ Sizes(partitions) = <<2, 2>>

(***************************************************************************)
(* C9 as claimed.  A scan over an empty file list is built, with zero      *)
(* partitions, and execute(i) with i not below the number of partitions    *)
(* gives back an error value: the calling task does not abort.             *)
(***************************************************************************)
C9_EmptyScanIsValid ==
    /\ (scan # "new" /\ all_files = <<>>) => (scan = "built" /\ partitions = <<>>)
    /\ scan # "panicked"

(***************************************************************************)
(* C2.  What the consumer of a partition's stream receives is Ok items,    *)
(* then at most one Err item, then end-of-stream for ever: nothing but     *)
(* end-of-stream follows an Err item or an end-of-stream.                  *)
(***************************************************************************)
C2_StreamShape ==
    \A p \in Parts :
        /\ \A i \in DOMAIN received[p] : received[p][i].kind \in {"ok", "err", "eos"}
        /\ \A i, j \in DOMAIN received[p] :
              (i < j /\ received[p][i].kind \in {"err", "eos"})
                  => received[p][j].kind = "eos"

C2_Witness ==
    \E p \in Parts :
        /\ Len(received[p]) = 4
        /\ received[p][1].kind = "ok"
        /\ received[p][2].kind = "err"
        /\ received[p][3].kind = "eos"
        /\ received[p][4].kind = "eos"

(***************************************************************************)
(* C3 as claimed.  With limit = Some(L) the rows of the Ok batches the     *)
(* consumer receives, summed over all partitions of the scan, are at most  *)
(* L + batch_size - 1.                                                     *)
(***************************************************************************)
RowsReceived(p) == Rows(Items(received[p]))

RECURSIVE RowsReceivedUpTo(_)
RowsReceivedUpTo(p) ==
    IF p = 0 THEN 0 ELSE RowsReceived(p) + RowsReceivedUpTo(p - 1)

C3_ScanRowsWithinLimit ==
    (scan = "built" /\ limit # None) =>
        RowsReceivedUpTo(Len(partitions)) <= limit + batch_size - 1

(***************************************************************************)
(* C3 as amended.  With limit = Some(L) the rows of the Ok batches the     *)
(* consumer receives from one partition's stream are at most               *)
(* max(L, 1) + batch_size - 1, and so are the rows that partition's worker *)
(* has read; over the k partitions of the scan they sum to at most         *)
(* k * (max(L, 1) + batch_size - 1).                                       *)
(***************************************************************************)
C3_PartitionRowsWithinLimit ==
    (scan = "built" /\ limit # None) =>
        LET bound == Max(limit, 1) + batch_size - 1 IN
        /\ \A p \in Parts :
              /\ RowsReceived(p) <= bound
              /\ Rows(produced[p]) <= bound
        /\ RowsReceivedUpTo(Len(partitions)) <= Len(partitions) * bound

C3_Witness ==
    \E p \in Parts :
        /\ limit = 1
        /\ batch_size = 2
        /\ worker[p].pc = "done"
        /\ worker[p].result = "ok"
        /\ worker[p].f = 1
        /\ Len(partitions[p]) = 2
        /\ received[p] = <<OkItem(partitions[p][1], 0, batch_size), Eos>>
        /\ RowsReceived(p) = limit + batch_size - 1

(***************************************************************************)
(* C4.  Once the consumer has dropped the stream the worker completes no   *)
(* further send and decodes at most one further item; a send attempted     *)
(* after the drop is not blocked, it fails and ends the worker, which then *)
(* stays as it is (it opens no further file).                              *)
(***************************************************************************)
C4_DropStopsWorker ==
    /\ [](\A p \in Parts :
            /\ hist[p].sends_after_drop = 0
            /\ hist[p].decodes_after_drop <= 1
            /\ (worker[p].result = "err_send"
                   => rx[p] = "dropped" /\ worker[p].pc = "done")
            /\ (rx[p] = "dropped" /\ worker[p].pc = "send" /\ scan = "built"
                   => ENABLED WorkerSend(p)))
    /\ [][\A p \in Parts :
            /\ (rx[p] = "dropped" /\ worker[p].pc = "send"
                  /\ worker'[p] # worker[p])
                 => worker'[p].result = "err_send"
            /\ (worker[p].result = "err_send" => worker'[p] = worker[p])]_vars

C4_Witness ==
    \E p \in Parts :
        /\ rx[p] = "dropped"
        /\ worker[p].result = "err_send"
        /\ hist[p].decodes_after_drop = 1
        /\ worker[p].f < Len(partitions[p])

(***************************************************************************)
(* C5.  At most 2 items are sent and not yet received; the worker has      *)
(* decoded at most 3 items more than the consumer has received, also when  *)
(* the consumer has not polled at all.                                     *)
(***************************************************************************)
C5_BackPressure ==
    \A p \in Parts :
        /\ Len(chan[p]) <= 2
        /\ Len(produced[p]) - Len(Items(received[p])) <= 3
        /\ (received[p] = <<>> => Len(produced[p]) <= 3)
        /\ (Len(chan[p]) = 2 /\ rx[p] = "open" /\ worker[p].pc = "send"
               => ~ENABLED WorkerSend(p))

C5_Witness ==
    \E p \in Parts :
        /\ rx[p] = "open"
        /\ received[p] = <<>>
        /\ Len(chan[p]) = 2
        /\ worker[p].pc = "send"
        /\ Len(produced[p]) = 3
        /\ Len(SoloItems(p)) > 3

(***************************************************************************)
(* C6.  The consumer receives the items in the order the worker produced   *)
(* them, none duplicated, dropped or reordered; the worker produces them   *)
(* in the partition's file order and, within a file, in batch (row) order. *)
(***************************************************************************)
Before(x, y) == x.file < y.file \/ (x.file = y.file /\ x.idx < y.idx)

C6_Ordering ==
    \A p \in Parts :
        /\ IsPrefix(Items(received[p]), produced[p])
        /\ (rx[p] = "open"
               => Items(received[p]) \o chan[p] \o InHand(p) = produced[p])
        /\ \A i, j \in DOMAIN produced[p] :
              i < j => Before(produced[p][i], produced[p][j])
        /\ \A i \in DOMAIN produced[p] :
              \E f \in DOMAIN partitions[p] :
                 /\ partitions[p][f].id = produced[p][i].file
                 /\ produced[p][i].kind = "ok" =>
                       produced[p][i] = OkItem(partitions[p][f], produced[p][i].idx, batch_size)

C6_Witness ==
    \E p \in Parts :
        /\ Len(Items(received[p])) = 3
        /\ received[p][1].file = received[p][2].file
        /\ received[p][2].file < received[p][3].file
        /\ received[p][1].idx < received[p][2].idx

(***************************************************************************)
(* C7 as claimed.  When the worker fails to open one of its files, the     *)
(* last item the consumer receives before end-of-stream is an Err item.    *)
(***************************************************************************)
C7_OpenFailureIsDelivered ==
    \A p \in Parts :
        (worker[p].result = "err_open" /\ \E i \in DOMAIN received[p] : IsEos(received[p][i]))
            => /\ Items(received[p]) # <<>>
               /\ Items(received[p])[Len(Items(received[p]))].kind = "err"

(***************************************************************************)
(* C8.  Whatever the other partitions of the scan do (read to the end,     *)
(* fail, reach the limit, have their stream dropped), the items delivered  *)
(* on a partition's stream are those its worker sends when it runs alone:  *)
(* always a prefix of them, and all of them once the stream has ended.     *)
(***************************************************************************)
C8_PartitionsIndependent ==
    \A p \in Parts :
        /\ IsPrefix(Items(received[p]), SoloItems(p))
        /\ (\E i \in DOMAIN received[p] : IsEos(received[p][i]))
              => Items(received[p]) = SoloItems(p)

C8_Witness ==
    /\ Len(partitions) = 2
    /\ limit = 2
    /\ worker[1].result \in {"err_send", "err_open", "err_decode"}
    /\ Rows(produced[1]) >= 1
    /\ Len(received[2]) = 3
    /\ IsEos(received[2][3])
    /\ RowsReceived(2) = 2

(***************************************************************************)
(* Row group pruning (SpecPrune).                                          *)
(***************************************************************************)
\* the predicate builder, the row groups and the column c1 of the scan
Expr == exec.predicate_builder.expr

RowGroups == row_group_metadata

K == Len(row_group_metadata)

C1 == ColumnWithName(schema, "c1")

C2 == ColumnWithName(schema, "c2")

\* what the engine answers for the scan's predicate and row groups
PredicateValues == Prune(Expr, RowGroups, exec.predicate_builder.schema)

\* a step of build_row_group_predicate
Evaluated == evaluations' = evaluations + 1

CountFalse(values) == Len(SelectSeq(values, LAMBDA v : ~v))

\* C11: when the engine answers with a vector `values` of length K,
\* build_row_group_predicate returns a closure with keep(_, i) = values[i]
\* for every i < K, adds the number of false entries of `values` to
\* row_groups_pruned and leaves predicate_evaluation_errors as it was
C11_SuccessfulEvaluation ==
    [][(Evaluated /\ PredicateValues.ok) =>
          /\ Len(PredicateValues.values) = K
          /\ \A i \in 0..(K - 1) :
                Keep(row_group_predicate', i) = PredicateValues.values[i + 1]
          /\ metrics'.row_groups_pruned =
                metrics.row_groups_pruned + CountFalse(PredicateValues.values)
          /\ metrics'.predicate_evaluation_errors =
                metrics.predicate_evaluation_errors]_vars

\* the evaluation of a vector with one false and one true entry
C11_Witness ==
    /\ evaluations = 1
    /\ PredicateValues.ok
    /\ PredicateValues.values = <<FALSE, TRUE>>
    /\ row_group_predicate = KeepValues(<<FALSE, TRUE>>)
    /\ metrics.row_groups_pruned = 1

\* C12: a predicate that cannot be built makes try_new succeed with no
\* predicate builder and predicate_creation_errors one higher; an evaluation
\* that fails adds one to predicate_evaluation_errors, leaves
\* row_groups_pruned as it was and keeps every row group; in both cases the
\* scan stays built and nothing panics
C12_PredicateFailuresAreSwallowed ==
    [][/\ (scan = "new" /\ scan' # "new" /\ predicate.some
               /\ ~predicate.buildable) =>
             /\ scan' = "built"
             /\ panic' = NoPanic
             /\ ~exec'.predicate_builder.some
             /\ metrics'.predicate_creation_errors =
                   metrics.predicate_creation_errors + 1
       /\ (Evaluated /\ ~PredicateValues.ok) =>
             /\ scan' = "built"
             /\ panic' = NoPanic
             /\ metrics'.predicate_evaluation_errors =
                   metrics.predicate_evaluation_errors + 1
             /\ metrics'.row_groups_pruned = metrics.row_groups_pruned
             /\ \A i \in 0..(K - 1) : Keep(row_group_predicate', i)]_vars

\* the evaluation failed for a file of two row groups
C12_Witness ==
    /\ evaluations = 1
    /\ K = 2
    /\ ~PredicateValues.ok
    /\ metrics.predicate_evaluation_errors = 1
    /\ metrics.row_groups_pruned = 0
    /\ row_group_predicate.kind = "all"

\* try_new met a predicate it could not build
C12_BuildFailed ==
    /\ scan = "built"
    /\ predicate.some
    /\ ~predicate.buildable
    /\ metrics.predicate_creation_errors = 1

\* the statistics of column `idx` of a row group give the adapter no value
NoUsableStatistics(st) ==
    \/ ~st.present
    \/ ~st.set
    \/ st.ptype \in {"Int96", "FixedLenByteArray"}

\* the columns of the files that the predicate compares with a literal
ComparedColumns ==
    {ColumnWithName(schema, a.col) : a \in {x \in AtomsOf(Expr) : x.k = "cmp"}}
        \ {0}

\* C13: after an evaluation, a row group whose statistics for a column the
\* predicate compares are absent, have has_min_max_set = false or are of type
\* Int96 or FixedLenByteArray is kept, whatever the other row groups hold
C13_RowGroupWithoutStatisticsIsKept ==
    evaluations >= 1 =>
        \A i \in 1..K : \A c \in ComparedColumns :
            NoUsableStatistics(RowGroups[i][c]) =>
                Keep(row_group_predicate, i - 1)

\* c1 > 1 on a row group without min/max and on one with (0, 1): the first
\* is kept although the second is pruned
C13_Witness ==
    /\ evaluations = 1
    /\ Expr = Single(Atom("cmp", "c1", ">", 1))
    /\ RowGroups = <<<<Stat("Int32", FALSE, 0, 0), C2Plain>>,
                     <<Stat("Int32", TRUE, 0, 1), C2Plain>>>>
    /\ row_group_predicate = KeepValues(<<TRUE, FALSE>>)
    /\ metrics.row_groups_pruned = 1

\* every row group has min and max of Int32 for c1
AllSetC1 ==
    \A i \in 1..K :
        /\ RowGroups[i][C1].present
        /\ RowGroups[i][C1].set
        /\ RowGroups[i][C1].ptype = "Int32"

IsC1(e, op) == e.kind = "atom" /\ e.a.k = "cmp" /\ e.a.col = "c1" /\ e.a.op = op

\* C14: for c1 > lit on an Int32 column with min and max set in every row
\* group, keep[i] = (max_i > lit) and row_groups_pruned grows by the number
\* of row groups with max_i <= lit
C14_GreaterThanPrunesByMax ==
    [][(Evaluated /\ IsC1(Expr, ">") /\ AllSetC1) =>
          /\ \A i \in 1..K :
                Keep(row_group_predicate', i - 1)
                    = (RowGroups[i][C1].max > Expr.a.lit)
          /\ metrics'.row_groups_pruned = metrics.row_groups_pruned
                + Cardinality({i \in 1..K : RowGroups[i][C1].max <= Expr.a.lit})
          /\ metrics'.predicate_evaluation_errors =
                metrics.predicate_evaluation_errors]_vars

\* c1 > 1 with (0, 1) and (2, 2): keep is [false, true], one pruned
C14_Witness ==
    /\ evaluations = 1
    /\ Expr = Single(Atom("cmp", "c1", ">", 1))
    /\ RowGroups = <<<<Stat("Int32", TRUE, 0, 1), C2Plain>>,
                     <<Stat("Int32", TRUE, 2, 2), C2Plain>>>>
    /\ row_group_predicate = KeepValues(<<FALSE, TRUE>>)
    /\ metrics.row_groups_pruned = 1

\* the row group's range of c1 holds the literal, the ends included
Straddles(st, lit) == st.present /\ st.set /\ st.min <= lit /\ lit <= st.max

IsC1Comparison(e) == e.kind = "atom" /\ e.a.k = "cmp" /\ e.a.col = "c1"

\* C15 as stated: for =, <, <=, > and >= alike, a row group with
\* min <= lit <= max is never pruned
C15_StraddlingNeverPruned ==
    (evaluations >= 1 /\ IsC1Comparison(Expr)) =>
        \A i \in 1..K :
            Straddles(RowGroups[i][C1], Expr.a.lit) =>
                Keep(row_group_predicate, i - 1)

\* C15: a row group with min <= lit <= max is never pruned for =, <= and
\* >=; for < it is kept when min < lit and for > when lit < max, and when
\* every row group has its statistics it is pruned for < at lit = min and
\* for > at lit = max
C15_StraddlingKeptButAtStrictEnd ==
    (evaluations >= 1 /\ IsC1Comparison(Expr)) =>
        \A i \in 1..K :
            LET st == RowGroups[i][C1]
                lit == Expr.a.lit
                kept == Keep(row_group_predicate, i - 1)
            IN Straddles(st, lit) =>
                  /\ Expr.a.op \in {"=", "<=", ">="} => kept
                  /\ (Expr.a.op = "<" /\ st.min < lit) => kept
                  /\ (Expr.a.op = ">" /\ lit < st.max) => kept
                  /\ (Expr.a.op = "<" /\ st.min = lit /\ AllSetC1) => ~kept
                  /\ (Expr.a.op = ">" /\ st.max = lit /\ AllSetC1) => ~kept

\* c1 >= 2 keeps (0, 2), whose max is the literal, and prunes (0, 1)
C15_Witness ==
    /\ evaluations = 1
    /\ Expr = Single(Atom("cmp", "c1", ">=", 2))
    /\ RowGroups = <<<<Stat("Int32", TRUE, 0, 2), C2Plain>>,
                     <<Stat("Int32", TRUE, 0, 1), C2Plain>>>>
    /\ row_group_predicate = KeepValues(<<TRUE, FALSE>>)

\* what the engine answers for the atom `a` alone, row group i (from 1)
AloneKeeps(a, i) ==
    ExprValue(Single(a), RowGroups, exec.predicate_builder.schema, i) # "F"

\* the evaluation of the atom `a` alone fails
AloneFails(a) == PruneFails(Single(a), RowGroups, exec.predicate_builder.schema)

C16_WitnessOr ==
    /\ evaluations = 1
    /\ Expr = Either(Atom("cmp", "c1", ">", 1), Unsupported)
    /\ RowGroups = <<<<Stat("Int32", TRUE, 0, 1), C2Plain>>,
                     <<Stat("Int32", TRUE, 2, 2), C2Plain>>>>
    /\ row_group_predicate = KeepValues(<<TRUE, TRUE>>)
    /\ metrics.predicate_evaluation_errors = 0

\* C17 as stated: for c1 > lit AND c2 = true, where every row group has
\* Boolean statistics (false, true) for c2 and Int32 statistics for c1, no
\* row group is pruned
C17_BooleanStatisticsNeverPrune ==
    (/\ evaluations >= 1
     /\ Expr.kind = "and"
     /\ Expr.b = C2IsTrue
     /\ AllSetC1
     /\ \A i \in 1..K : RowGroups[i][C2] = C2Plain) =>
        \A i \in 1..K : Keep(row_group_predicate, i - 1)

\* the statistics of c2 reach the engine as values, not as nulls
C17_BooleanStatisticsAreValues ==
    \A i \in 1..K :
        RowGroups[i][C2] = C2Plain =>
            GetStatistic(RowGroups[i][C2], "min") = <<Scalar("Boolean", 0)>>

(***************************************************************************)
(* Projection (SpecNew).                                                   *)
(***************************************************************************)
\* the projection the caller means: the list given, or every column
Asked ==
    IF projection.some THEN projection.v
    ELSE [k \in 1..Len(schema) |-> k - 1]

\* C18: the schema of a built scan has Len(p) fields and its k-th field is
\* the field p[k] of the files' schema, order and duplicates kept, where p
\* is the projection given or 0..n-1 when none was given; the streams of
\* execute announce this schema and the reader is asked for exactly the
\* columns p in this order
C18_ProjectedSchema ==
    scan = "built" =>
        /\ Len(SchemaOf) = Len(Asked)
        /\ \A k \in 1..Len(Asked) : SchemaOf[k] = schema[Asked[k] + 1]
        /\ StreamSchema = SchemaOf
        /\ ReaderColumns = Asked

\* the projection [1, 0] of three columns: c2 then c1
C18_Witness ==
    /\ scan = "built"
    /\ Len(schema) = 3
    /\ projection = SomeOf(<<1, 0>>)
    /\ SchemaOf = <<schema[2], schema[1]>>

\* the projection [1, 1]: c2 twice
C18_WitnessDuplicate ==
    /\ scan = "built"
    /\ projection = SomeOf(<<1, 1>>)
    /\ SchemaOf = <<schema[2], schema[2]>>

\* C19 as stated: the column statistics of a built scan are those of the
\* columns p[0], p[1], ... of the input, in this order, when the input has
\* column statistics and none when it has none; num_rows and
\* total_byte_size are those of the input
C19_ProjectedColumnStatistics ==
    scan = "built" =>
        /\ StatisticsOf.num_rows = statistics.num_rows
        /\ StatisticsOf.total_byte_size = statistics.total_byte_size
        /\ StatisticsOf.column_statistics =
              IF statistics.column_statistics.some
              THEN SomeOf([k \in 1..Len(Asked) |->
                              statistics.column_statistics.v[Asked[k] + 1]])
              ELSE NoneOf

\* what the code does keep of the statistics: num_rows and total_byte_size,
\* and whether there are column statistics at all
C19_CountsPassThrough ==
    scan = "built" =>
        /\ StatisticsOf.num_rows = statistics.num_rows
        /\ StatisticsOf.total_byte_size = statistics.total_byte_size
        /\ StatisticsOf.column_statistics.some
              = statistics.column_statistics.some

(***************************************************************************)
(* The frames of do_get (SpecFlight).                                      *)
(***************************************************************************)
\* the frames of batch b, which has d dictionaries
FramesOfBatch(b, d) ==
    [j \in 1..(d + 1) |-> IF j <= d THEN DictFrame(b, j) ELSE BatchFrame(b)]

\* the frames of a file: the schema, then batch after batch
FramesOfFile(file) ==
    <<SchemaFrame>>
        \o Concat([b \in 1..Len(file.dicts) |-> FramesOfBatch(b, file.dicts[b])])

\* the frames delivered so far, without the end marker
Delivered == SelectSeq(freceived, LAMBDA x : x # FlightEos)

BatchFrames(frames) == SelectSeq(frames, LAMBDA x : x.kind = "batch")

Readable(file) == file.open /\ file.meta

\* C20: what the consumer of do_get has received of a readable file is at
\* every moment a prefix of: one schema frame, then for each batch in file
\* order its dictionary frames and then its one batch frame; never more
\* batch frames than batches read; and when the stream of a file without
\* decode error ends undropped, it is all of it, with as many batch frames
\* as batches read
C20_FrameOrder ==
    Readable(request.file) =>
        /\ IsPrefix(Delivered, FramesOfFile(request.file))
        /\ Len(BatchFrames(Delivered)) <= task.reads
        /\ (Ended(freceived) /\ ~request.file.fail) =>
               /\ Delivered = FramesOfFile(request.file)
               /\ Len(BatchFrames(Delivered)) = task.reads
               /\ task.reads = Len(request.file.dicts)

\* a file of two batches, the first with a dictionary, streamed to its end
C20_Witness ==
    /\ request.file.dicts = <<1, 0>>
    /\ ~request.file.fail
    /\ freceived = <<SchemaFrame, DictFrame(1, 1), BatchFrame(1),
                     BatchFrame(2), FlightEos>>

(***************************************************************************)
(* Failures of do_get (SpecFlight).                                        *)
(***************************************************************************)
\* the caller saw a status: as the result of the call or as a stream item
SawStatus ==
    \/ call = "err"
    \/ \E i \in DOMAIN freceived : freceived[i].kind = "err"

\* C21 as stated: when the partition file of a decoded ticket cannot be
\* opened or its metadata cannot be read, a caller whose stream has ended
\* has seen an Internal status
C21_OpenFailureIsObserved ==
    (request.decodable /\ ~Readable(request.file) /\ Ended(freceived)) =>
        SawStatus

\* what the caller does get of such a file: a stream that ends at once,
\* while the task ended with the error
C21_OpenFailureIsLogged ==
    (request.decodable /\ ~Readable(request.file) /\ task.pc = "done") =>
        /\ call = "ok"
        /\ task.result \in {"err_open", "err_meta"}
        /\ Delivered = <<>>
        /\ fchan = <<>>

\* C22 as stated: when the reader of a readable file ends with a decode
\* error, the stream ends with that error as an Err item, the last item
\* the consumer receives
C22_DecodeErrorIsDelivered ==
    (Readable(request.file) /\ request.file.fail /\ Ended(freceived)) =>
        /\ Len(freceived) >= 2
        /\ freceived[Len(freceived) - 1].kind = "err"

\* what holds of a decode error after batch k: the frames of the schema and
\* of the batches before it, in order, and nothing of a later batch
C22_FramesBeforeDecodeError ==
    (Readable(request.file) /\ request.file.fail /\ Ended(freceived)) =>
        /\ Delivered = FramesOfFile(request.file)
        /\ task.result = "err_decode"

(***************************************************************************)
(* Back-pressure and drop of a do_get stream (SpecFlight).                 *)
(***************************************************************************)
\* the frames the task has sent: those received and those still buffered
\* (while the stream is open)
Sent == Delivered \o fchan

\* C25: at most 2 frames are sent and not yet received; while 2 are
\* buffered and the stream is open a send does not complete and the task,
\* which is sending, reads no batch; the task has never read more batches
\* than those whose batch frame it has sent plus the one it is sending, so
\* with a consumer that never polls it has read at most the batches that
\* fit the channel and one more
C25_FlightBackPressure ==
    /\ [](/\ Len(fchan) <= 2
          /\ (frx = "open" => task.reads <= Len(BatchFrames(Sent)) + 1)
          /\ (frx = "open" /\ freceived = <<>> => task.reads <= 2)
          /\ (Len(fchan) = 2 /\ frx = "open" /\ task.pc = "send"
                 => ~ENABLED TaskSend /\ ~ENABLED TaskRead))
    /\ [][(Len(fchan) = 2 /\ frx' = "open" /\ task.pc = "send")
             => task' = task]_vars

\* the consumer has not polled: the schema frame and the frame of the first
\* batch fill the channel, the task holds the second batch and waits
C25_Witness ==
    /\ frx = "open"
    /\ freceived = <<>>
    /\ fchan = <<SchemaFrame, BatchFrame(1)>>
    /\ task.pc = "send"
    /\ task.q = <<BatchFrame(2)>>
    /\ task.reads = 2

\* C26: once the consumer has dropped the stream no frame is buffered or
\* delivered, the task reads at most one further batch, and its next send
\* fails and ends it with an error that the caller never sees; a task that
\* ended stays as it is
C26_FlightDropStopsTask ==
    /\ [](/\ (frx = "dropped" => fchan = <<>>)
          /\ task.reads_after_drop <= 1
          /\ (task.result = "err_send" => frx = "dropped" /\ task.pc = "done")
          /\ (task.result = "err_send" => call = "ok" /\ ~SawStatus)
          /\ (frx = "dropped" /\ task.pc = "send" => ENABLED TaskSend))
    /\ [][/\ (frx = "dropped" => freceived' = freceived /\ fchan' = fchan)
          /\ (frx = "dropped" /\ task.pc = "send" /\ task' # task)
                => task'.result = "err_send" /\ task'.pc = "done"
          /\ (task.pc = "done" => task' = task)]_vars

\* the stream was dropped while the task was between two batches: it read
\* one more batch and its send failed
C26_Witness ==
    /\ frx = "dropped"
    /\ task.result = "err_send"
    /\ task.reads_after_drop = 1
    /\ task.reads < Len(request.file.dicts)

\* C23: a ticket of do_get, or a body of do_action, that cannot be decoded
\* makes the call return an Internal status at once: no channel is
\* created, no task is spawned, no file is opened, nothing is streamed
C23_UndecodableRequestFailsAtOnce ==
    /\ [](/\ ~request.decodable =>
                /\ call \in {"none", "err"}
                /\ task = NoTask
                /\ frx = "none"
                /\ fchan = <<>>
                /\ freceived = <<>>
          /\ call = "err" => ~request.decodable
          /\ (rpc["do_action"].called /\ ~rpc["do_action"].decodable) =>
                rpc["do_action"].result = "internal")
    /\ [][/\ (call = "none" /\ call' # "none" /\ ~request.decodable) =>
                 call' = "err"
          /\ call = "err" => call' = "err"]_vars

C23_Witness ==
    /\ ~request.decodable
    /\ request.file.open
    /\ call = "err"
    /\ task = NoTask
    /\ rpc["do_action"].called
    /\ ~rpc["do_action"].decodable
    /\ rpc["do_action"].result = "internal"

\* C24: get_schema, get_flight_info, handshake, list_flights, list_actions
\* and do_exchange return Unimplemented, and so does do_action when its
\* body decodes; do_put reads the inbound frames in order, returns
\* Unimplemented only when it has read them all and none was an error, and
\* returns at the first frame that is an error without reading another;
\* none of them ever returns success
C24_OnlyDoGetSucceeds ==
    /\ [](/\ \A m \in Unary :
                IF rpc[m].called THEN rpc[m].result = "unimplemented"
                ELSE rpc[m].result = "none"
          /\ (rpc["do_action"].called /\ rpc["do_action"].decodable) =>
                rpc["do_action"].result = "unimplemented"
          /\ rpc["do_action"].result \in {"none", "unimplemented", "internal"}
          /\ put.result \in {"none", "unimplemented", "frame_error"}
          /\ put.read <= Len(put.inbound)
          /\ \A i \in 1..(put.read - 1) : put.inbound[i] = "ok"
          /\ put.result = "unimplemented" <=>
                /\ put.pc = "done"
                /\ put.read = Len(put.inbound)
                /\ \A i \in 1..Len(put.inbound) : put.inbound[i] = "ok"
          /\ put.result = "frame_error" <=>
                /\ put.pc = "done"
                /\ put.read >= 1
                /\ put.inbound[put.read] = "err"
          /\ put.pc = "next" => put.result = "none")
    /\ [][/\ put'.read \in {put.read, put.read + 1}
          /\ put.pc = "done" => put' = put
          /\ \A m \in Methods : rpc[m].called => rpc'[m] = rpc[m]]_vars

C24_Witness ==
    /\ \A m \in Methods : rpc[m].called
    /\ rpc["do_action"].decodable
    /\ put.result = "frame_error"
    /\ put.inbound = <<"ok", "err">>

\* do_put that has read a whole inbound stream
C24_WitnessExhausted ==
    /\ put.result = "unimplemented"
    /\ put.read = MaxInbound

\* C27: a configuration that RuntimeConfig::new and the with_ calls
\* returned has batch_size > 0, max_memory > 0 and at least one local
\* directory; a call with 0 or with no directory returns none; the default
\* has batch_size 8192, the largest max_memory and one local directory
C27_ConfigIsValid ==
    /\ [](/\ config.status = "ok" =>
                /\ config.batch_size > 0
                /\ config.max_memory > 0
                /\ config.max_memory <= UsizeMax
                /\ config.local_dirs # <<>>
          /\ (config.status = "ok" /\ config.calls = 0) =>
                /\ config.batch_size = 8192
                /\ config.max_memory = UsizeMax
                /\ Len(config.local_dirs) = 1
          /\ config.rejected => config.status = "aborted")
    /\ [][/\ config.status = "aborted" => config' = config
          /\ (config.status = "ok" /\ config'.status = "ok") =>
                \/ /\ config'.last = "with_batch_size"
                   /\ config'.batch_size \in 1..MaxN
                   /\ config'.max_memory = config.max_memory
                   /\ config'.local_dirs = config.local_dirs
                \/ /\ config'.last = "with_max_execution_memory"
                   /\ config'.batch_size = config.batch_size
                   /\ config'.local_dirs = config.local_dirs
                \/ /\ config'.last = "with_local_dirs"
                   /\ config'.batch_size = config.batch_size
                   /\ config'.max_memory = config.max_memory]_vars

\* three calls returned, one of each kind
C27_Witness ==
    /\ config.status = "ok"
    /\ config.calls = 3
    /\ config.batch_size = 1
    /\ config.max_memory = 1
    /\ Len(config.local_dirs) = 2

\* with_batch_size(0) returned no configuration
C27_WitnessAborted ==
    /\ config.status = "aborted"
    /\ config.last = "with_batch_size"
    /\ config.rejected

RECURSIVE HasFailure(_)
\* the walk of the tree meets an entry it cannot read or a path that is not
\* UTF-8, or the root does not exist
HasFailure(node) ==
    \/ node.kind \in {"missing", "bad_entry", "non_utf8"}
    \/ node.kind = "dir" /\ ~node.readable
    \/ \E i \in 1..Len(node.entries) : HasFailure(node.entries[i])

RECURSIVE FilesUnder(_, _)
\* the files at or below a path whose names end with the extension
FilesUnder(node, path) ==
    IF node.kind = "file" THEN (IF node.ext THEN {path} ELSE {})
    ELSE UNION {FilesUnder(node.entries[i], Append(path, i)) :
                   i \in 1..Len(node.entries)}

\* the elements of a sequence
Range(seq) == {seq[i] : i \in 1..Len(seq)}

\* C28: list_all_files returns an error whenever the walk meets an
\* unreadable entry, a non-UTF-8 path or a root that does not exist, and
\* otherwise exactly the files under the root whose names end with ext
C28_ListingFailsOrIsComplete ==
    listing.called =>
        IF HasFailure(listing.tree) THEN ~listing.ok
        ELSE /\ listing.ok
             /\ Range(listing.names) = FilesUnder(listing.tree, <<>>)

\* what the code does: the call always returns Ok; after a walk without a
\* failure the list is exactly the files whose names end with ext, each
\* once, and after a failure it is the files met before it
C28_ListingIsAlwaysOk ==
    listing.called =>
        /\ listing.ok
        /\ Range(listing.names) \subseteq FilesUnder(listing.tree, <<>>)
        /\ Cardinality(Range(listing.names)) = Len(listing.names)
        /\ ~HasFailure(listing.tree) =>
              Range(listing.names) = FilesUnder(listing.tree, <<>>)
        /\ (listing.tree.kind = "file" /\ listing.tree.ext) =>
              listing.names = << <<>> >>

\* a failure before a matching file: Ok with a list that lacks the file
C28_PartialListing ==
    /\ listing.called
    /\ listing.ok
    /\ HasFailure(listing.tree)
    /\ listing.names = <<>>
    /\ FilesUnder(listing.tree, <<>>) # {}

\* C29: a segment made by get_reader(start, length) and read to its end
\* yields the bytes at the offsets start .. start + length - 1: its first
\* byte is the one at start wherever the cursor of the handle was, and it
\* reports the end of its data after length bytes
C29_SegmentIsItsRange ==
    \A i \in 1..Len(segments) :
        /\ IsPrefix(segments[i].out,
                    Offsets(segments[i].start, segments[i].length))
        /\ segments[i].eof =>
              segments[i].out = Offsets(segments[i].start, segments[i].length)

\* what the code does for the one segment of a newly opened file: it starts
\* at start and goes on to the end of the file
C29_FirstSegmentReadsToEndOfFile ==
    Len(segments) = 1 =>
        /\ IsPrefix(segments[1].out,
                    Offsets(segments[1].start, object.len - segments[1].start))
        /\ segments[1].eof =>
              segments[1].out =
                  Offsets(segments[1].start, object.len - segments[1].start)

\* a segment of one byte of a file of two bytes returned both
C29_ReadPastLength ==
    /\ Len(segments) = 1
    /\ object.len = 2
    /\ segments[1].start = 0
    /\ segments[1].length = 1
    /\ segments[1].eof
    /\ segments[1].out = <<0, 1>>

\* what a segment returns when it is the only one made from its object
\* reader: C29_FirstSegmentReadsToEndOfFile
Alone(seg) == Offsets(seg.start, object.len - seg.start)

\* C30: segments made from one object reader, under any interleaving of
\* creations and reads, each return what they would return alone: making or
\* reading one never moves the read position of another
C30_SegmentsAreIndependent ==
    \A i \in 1..Len(segments) :
        /\ IsPrefix(segments[i].out, Alone(segments[i]))
        /\ segments[i].eof => segments[i].out = Alone(segments[i])

\* the second of two segments with the same start found the cursor moved by
\* the first and returned nothing
C30_SecondSegmentMisplaced ==
    /\ Len(segments) = 2
    /\ object.len = 2
    /\ segments[1].start = 1
    /\ segments[2].start = 1
    /\ segments[1].out = <<>>
    /\ segments[2].eof
    /\ segments[2].out = <<>>

\* the entry that describes the statistics of one column of one row group
Describes(st, dt, which) ==
    IF NoUsableStatistics(st) THEN NullScalar(dt) ELSE Scalar(dt, st[which])

\* the array `a` has one entry for each row group, at the row group's index
OneEntryPerRowGroup(a, idx, which) ==
    a.some =>
        /\ Len(a.v) = NumContainers(RowGroups)
        /\ \A i \in 1..K :
              a.v[i] = Describes(RowGroups[i][idx], schema[idx].data_type, which)

\* C31: for every column of the schema, min_values and max_values return
\* None or an array of num_containers() entries whose i-th entry describes
\* row group i; a row group without statistics for the column has a null
\* entry at its own index
C31_OneEntryPerRowGroup ==
    evaluations >= 1 =>
        \A idx \in 1..Len(schema) :
            /\ OneEntryPerRowGroup(
                   MinValues(RowGroups, exec.predicate_builder.schema,
                             schema[idx].name), idx, "min")
            /\ OneEntryPerRowGroup(
                   MaxValues(RowGroups, exec.predicate_builder.schema,
                             schema[idx].name), idx, "max")

\* the row groups that have statistics for the column
WithStatistics(idx) == SelectSeq(RowGroups, LAMBDA rg : rg[idx].present)

\* what the code does: the array has one entry for each row group that has
\* statistics for the column, in their order, so it is as long as the row
\* groups are many only when none lacks them
C31_OneEntryPerStatistics ==
    evaluations >= 1 =>
        \A idx \in 1..Len(schema) : \A which \in {"min", "max"} :
            LET a == GetMinMaxValues(RowGroups, exec.predicate_builder.schema,
                                     schema[idx].name, which)
            IN  a.some =>
                   /\ Len(a.v) = Len(WithStatistics(idx))
                   /\ \A i \in 1..Len(a.v) :
                         a.v[i] = Describes(WithStatistics(idx)[i][idx],
                                            schema[idx].data_type, which)

\* a row group without statistics before one with them: an array of one
\* entry, which is the entry of the second row group
C31_ShiftedEntry ==
    /\ evaluations = 1
    /\ RowGroups = <<<<NoStat, C2Plain>>, <<Stat("Int32", TRUE, 1, 2), C2Plain>>>>
    /\ MinValues(RowGroups, exec.predicate_builder.schema, "c1")
           = SomeOf(<<Scalar("Int32", 1)>>)

\* the worker of partition p completes the send of an Ok batch in this step
SendsBatch(p) ==
    /\ worker[p].pc = "send"
    /\ worker[p].hand.kind = "ok"
    /\ chan'[p] = Append(chan[p], worker[p].hand)

\* C32: with limit = Some(L), right after the send that makes the rows sent
\* by a worker reach or exceed L the worker stops with success: it sends no
\* further item, reads no further batch and opens no further file; the rows
\* are counted by each worker for itself
C32_LimitStopsWorker ==
    /\ [](\A p \in Parts :
            /\ worker[p].total_rows = Rows(produced[p])
            /\ (worker[p].pc \in {"open", "next"} /\ limit # None
                  /\ produced[p] # <<>>) => Rows(produced[p]) < limit)
    /\ [][\A p \in Parts :
            /\ SendsBatch(p) =>
                  IF limit # None /\ Rows(produced[p]) >= limit
                  THEN /\ worker'[p].pc = "done"
                       /\ worker'[p].result = "ok"
                       /\ \A i \in 1..Len(produced[p]) :
                             produced[p][i].kind = "ok"
                  ELSE worker'[p].pc = "next"
            /\ worker[p].pc = "done" =>
                  /\ worker'[p] = worker[p]
                  /\ produced'[p] = produced[p]
                  /\ Len(chan'[p]) <= Len(chan[p])]_vars

\* two partitions under limit 1: each worker stopped after its own first
\* batch, with a batch of its file unread, and each stream ended
C32_Witness ==
    /\ limit = 1
    /\ batch_size = 1
    /\ Len(partitions) = 2
    /\ \A p \in Parts :
          /\ worker[p].pc = "done"
          /\ worker[p].result = "ok"
          /\ worker[p].total_rows = 1
          /\ partitions[p][1].rows = 2
          /\ received[p] = <<OkItem(partitions[p][1], 0, batch_size), Eos>>

\* the files of the partition of a scan with a predicate
ScanFiles == partitions[1]

\* what the keep function of a file answers
KeepOf(file) ==
    IF exec.predicate_builder.some
    THEN BuildRowGroupPredicate(exec.predicate_builder, NoMetrics,
                                RowGroupsOf(file)).keep
    ELSE [kind |-> "all", values |-> <<>>]

\* the rows of the Ok batches among items
RECURSIVE RowIds(_)
RowIds(items) ==
    IF items = <<>> THEN <<>>
    ELSE (IF Head(items).kind = "ok" THEN Head(items).ids ELSE <<>>)
             \o RowIds(Tail(items))

\* the rows of the row groups that the keep functions of the files keep
RECURSIVE KeptRowsOfFiles(_)
KeptRowsOfFiles(files) ==
    IF files = <<>> THEN <<>>
    ELSE LET file == Head(files)
         IN  Concat([g \in 1..Len(file.row_groups) |->
                        IF Keep(KeepOf(file), g - 1)
                        THEN [r \in 1..file.row_groups[g].rows |->
                                 <<file.id, g, r>>]
                        ELSE <<>>])
                 \o KeptRowsOfFiles(Tail(files))

\* every row of every row group
RECURSIVE AllRowsOfFiles(_)
AllRowsOfFiles(files) ==
    IF files = <<>> THEN <<>>
    ELSE LET file == Head(files)
         IN  Concat([g \in 1..Len(file.row_groups) |->
                        [r \in 1..file.row_groups[g].rows |-> <<file.id, g, r>>]])
                 \o AllRowsOfFiles(Tail(files))

\* the execution came to the end of its files: no limit reached, no error,
\* stream not dropped, and the consumer has seen the end of the stream
NaturalEnd(w) ==
    /\ w.pc = "done"
    /\ w.result = "ok"
    /\ w.f > Len(ScanFiles)
    /\ w.rx = "open"
    /\ RunEnded(w.received)

\* C33: a worker never delivers a row of a row group for which the keep
\* function of the file answered false; at a natural end of the stream the
\* consumer has received every row of every kept row group of every file
\* exactly once; without predicate these are the rows of every row group
C33_KeptRowGroupsAreDelivered ==
    \A r \in DOMAIN runs :
        LET w == runs[r]
            sent == RowIds(w.received) \o RowIds(w.chan) \o RowIds(InHandOf(w))
        IN  /\ \A i \in 1..Len(sent) :
                  Keep(KeepOf(ScanFiles[sent[i][1]]), sent[i][2] - 1)
            /\ IsPrefix(RowIds(w.received), KeptRowsOfFiles(ScanFiles))
            /\ NaturalEnd(w) => RowIds(w.received) = KeptRowsOfFiles(ScanFiles)
            /\ ~exec.predicate_builder.some =>
                  KeptRowsOfFiles(ScanFiles) = AllRowsOfFiles(ScanFiles)

\* c1 > 1 pruned the first row group of a file and kept the second: the
\* stream ended with the row of the second alone
C33_Witness ==
    /\ runs # <<>>
    /\ NaturalEnd(runs[1])
    /\ Len(ScanFiles) = 1
    /\ KeepOf(ScanFiles[1]) = KeepValues(<<FALSE, TRUE>>)
    /\ RowIds(runs[1].received) = << <<1, 2, 1>> >>

\* without predicate: a file of two row groups and a file of one, all
\* three rows delivered
C33_WitnessNoPredicate ==
    /\ runs # <<>>
    /\ NaturalEnd(runs[1])
    /\ ~exec.predicate_builder.some
    /\ Len(ScanFiles) = 2
    /\ Len(RowIds(runs[1].received)) = 3

\* C34: a worker has at most one file open at any time, and none while it
\* goes from one file to the next; once it has terminated, for whatever
\* cause, no file it opened is open, its sender is dropped, and a consumer
\* that polls comes to the end of the stream
C34_HandlesAreReleased ==
    \A r \in DOMAIN runs :
        LET w == runs[r] IN
        /\ Cardinality(w.handles) <= 1
        /\ w.pc = "open" => w.handles = {}
        /\ w.pc \in {"next", "send"} => w.handles = {ScanFiles[w.f].id}
        /\ w.pc = "done" <=> w.tx = "dropped"
        /\ w.pc = "done" =>
              /\ w.handles = {}
              /\ w.result \in {"ok", "err_open", "err_decode", "err_send"}
              /\ (w.rx = "open" /\ ~RunEnded(w.received)) => ENABLED RunPoll(r)

\* the worker read its first file to the end and terminated on the second,
\* which failed while its batches were read
C34_Witness ==
    /\ runs # <<>>
    /\ runs[1].pc = "done"
    /\ runs[1].result = "err_decode"
    /\ runs[1].f = 2
    /\ runs[1].handles = {}
    /\ runs[1].tx = "dropped"
    /\ RunEnded(runs[1].received)

\* the other ways a worker terminates with a file in hand: at the limit,
\* at a reader that cannot be made, and at a send after the drop
C34_WitnessLimit ==
    /\ runs # <<>>
    /\ runs[1].result = "ok"
    /\ runs[1].f <= Len(ScanFiles)
    /\ runs[1].handles = {}

C34_WitnessOpenError ==
    /\ runs # <<>>
    /\ runs[1].result = "err_open"
    /\ runs[1].f = 2
    /\ ScanFiles[2].open
    /\ runs[1].handles = {}

C34_WitnessDropped ==
    /\ runs # <<>>
    /\ runs[1].result = "err_send"
    /\ runs[1].f = 2
    /\ runs[1].handles = {}

\* the execution is over: the worker has terminated, and the consumer has
\* dropped the stream or come to its end
Over(w) ==
    /\ w.pc = "done"
    /\ w.rx = "dropped" \/ RunEnded(w.received)

\* C35: under fair scheduling of the worker and of a consumer that polls
\* until it drops the stream, the worker terminates and the stream, unless
\* dropped, comes to its end with every item that was sent received before
\* it; so no worker stays in a send for ever
C35_WorkerAndStreamTerminate ==
    /\ [](\A r \in DOMAIN runs :
            RunEnded(runs[r].received) =>
                runs[r].pc = "done" /\ runs[r].chan = <<>>)
    /\ (runs # <<>>) ~> (runs # <<>> /\ Over(runs[1]))

\* a worker waits in send for room in the full channel of a consumer that
\* holds the stream
C35_Witness ==
    /\ runs # <<>>
    /\ runs[1].pc = "send"
    /\ Len(runs[1].chan) = ChannelCapacity
    /\ runs[1].rx = "open"
    /\ ~ENABLED RunSend(1)

\* the evaluations of the predicate by every execution so far
RECURSIVE EvaluationsUpTo(_)
EvaluationsUpTo(r) ==
    IF r = 0 THEN <<>> ELSE EvaluationsUpTo(r - 1) \o runs[r].evals

RECURSIVE SumPruned(_)
SumPruned(evals) ==
    IF evals = <<>> THEN 0
    ELSE (IF Head(evals).ok THEN Head(evals).pruned ELSE 0)
             + SumPruned(Tail(evals))

\* what one execution that reads all the files adds to the counters
RECURSIVE PrunedIn(_)
PrunedIn(files) ==
    IF files = <<>> THEN 0
    ELSE (IF KeepOf(Head(files)).kind = "values"
          THEN CountFalse(KeepOf(Head(files)).values) ELSE 0)
             + PrunedIn(Tail(files))

ErrorsIn(files) ==
    IF exec.predicate_builder.some
    THEN Len(SelectSeq(files, LAMBDA f : KeepOf(f).kind = "all"))
    ELSE 0

\* the files whose predicate an execution has evaluated so far: those it
\* went beyond and the one it is at
EvaluatedBy(w) ==
    IF ~exec.predicate_builder.some THEN <<>>
    ELSE SubSeq(ScanFiles, 1, Len(w.evals))

\* the execution read every file to its end
Completed(w) == w.pc = "done" /\ w.result = "ok" /\ w.f > Len(ScanFiles)

\* C36: the counters of the partition are shared by all its executions and
\* never decrease: row_groups_pruned is the sum, over the evaluations that
\* succeeded, of their false entries, predicate_evaluation_errors is the
\* number of evaluations that failed, whatever became of the executions;
\* two executions that completed have counted every file twice
C36_CountersAreShared ==
    /\ [](scan = "built" =>
            LET evals == EvaluationsUpTo(Len(runs)) IN
            /\ metrics.row_groups_pruned = SumPruned(evals)
            /\ metrics.predicate_evaluation_errors =
                  Len(SelectSeq(evals, LAMBDA e : ~e.ok))
            /\ \A r \in DOMAIN runs :
                  /\ \A i \in 1..Len(runs[r].evals) :
                        LET e == runs[r].evals[i]
                            keep == KeepOf(ScanFiles[i])
                        IN  /\ e.file = ScanFiles[i].id
                            /\ e.ok <=> keep.kind = "values"
                            /\ e.ok => e.pruned = CountFalse(keep.values)
                  /\ Completed(runs[r]) =>
                        EvaluatedBy(runs[r]) =
                            (IF exec.predicate_builder.some
                             THEN ScanFiles ELSE <<>>)
            /\ (Len(runs) = 2 /\ \A r \in DOMAIN runs : Completed(runs[r])) =>
                  /\ metrics.row_groups_pruned = 2 * PrunedIn(ScanFiles)
                  /\ metrics.predicate_evaluation_errors =
                        2 * ErrorsIn(ScanFiles))
    /\ [][/\ metrics'.row_groups_pruned >= metrics.row_groups_pruned
          /\ metrics'.predicate_evaluation_errors >=
                metrics.predicate_evaluation_errors]_vars

\* two executions of a partition of a file whose row group is pruned and a
\* file whose row group is kept both completed: two row groups pruned
C36_Witness ==
    /\ Len(runs) = 2
    /\ Completed(runs[1])
    /\ Completed(runs[2])
    /\ Len(ScanFiles) = 2
    /\ PrunedIn(ScanFiles) = 1
    /\ metrics.row_groups_pruned = 2
    /\ metrics.predicate_evaluation_errors = 0

\* an execution failed on a file after it pruned the row group of the file
\* and another was dropped before it came to that file: the counter holds
\* what the first counted
C36_WitnessFailed ==
    /\ Len(runs) = 2
    /\ runs[1].result = "err_open"
    /\ runs[2].result = "err_send"
    /\ runs[1].evals # <<>>
    /\ metrics.row_groups_pruned = 1

\* evaluations that failed are counted for each execution
C36_WitnessErrors ==
    /\ Len(runs) = 2
    /\ Completed(runs[1])
    /\ Completed(runs[2])
    /\ metrics.predicate_evaluation_errors = 4

====
